---- MODULE Spec2Model ----
(***************************************************************************)
(* Model of the Google Maps lead extractor: the listing walk               *)
(* (extractBusinessListings / extractBusinessData in src/src/scraper.js)   *)
(* and the validator / filter (src/src/utils/validation.js).               *)
(*                                                                         *)
(* Text is modelled as a sequence of one-character strings, so that        *)
(* trimming, whitespace collapsing and digit parsing are computed as the   *)
(* code computes them.  A URL is a sequence of tokens: an optional         *)
(* scheme+host token followed by path tokens.                              *)
(***************************************************************************)
EXTENDS Integers, Sequences, FiniteSets, TLC

\* ------------------------------------------------------------------------
\* Bounds of the model
\* ------------------------------------------------------------------------
MaxLinks == 3        \* most listings a search has, for every setting
LongLinks == 5       \* most listings a search has, for the plain setting
MaxMaxResults == 3   \* largest result cap tried
MaxRerenders == 1    \* feed re-renders that are not appends, per walk
MaxReplaced == 1     \* most cards of a list that a re-render replaces
MaxRerenderLinks == 2 \* most cards of a re-rendered list

\* ------------------------------------------------------------------------
\* Values
\* ------------------------------------------------------------------------
\* JavaScript null for text, URLs and records (a sequence, so that it can be
\* compared with text).
Null == <<"NULL">>

\* JavaScript null for the numeric rating (ratings are kept in tenths).
NullNum == -1

Digits == {"0", "1", "2", "3", "4", "5", "6", "7", "8", "9"}

DigitVal(c) ==
    CASE c = "0" -> 0 [] c = "1" -> 1 [] c = "2" -> 2 [] c = "3" -> 3
      [] c = "4" -> 4 [] c = "5" -> 5 [] c = "6" -> 6 [] c = "7" -> 7
      [] c = "8" -> 8 [] c = "9" -> 9

\* \s of the JavaScript regular expressions, as far as the model's alphabet
\* has it.
IsSpace(c) == c \in {" ", "\t", "\n"}

\* A JavaScript value used as a condition: null and "" are falsy.
Truthy(s) == s # Null /\ s # <<>>

RECURSIVE TrimLeft(_)
TrimLeft(s) ==
    IF s = <<>> THEN <<>>
    ELSE IF IsSpace(Head(s)) THEN TrimLeft(Tail(s)) ELSE s

RECURSIVE TrimRight(_)
TrimRight(s) ==
    IF s = <<>> THEN <<>>
    ELSE IF IsSpace(s[Len(s)]) THEN TrimRight(SubSeq(s, 1, Len(s) - 1)) ELSE s

\* String.prototype.trim
Trim(s) == TrimRight(TrimLeft(s))

\* str.replace(/\s+/g, ' ')
RECURSIVE CollapseSpaces(_)
CollapseSpaces(s) ==
    IF s = <<>> THEN <<>>
    ELSE IF IsSpace(Head(s))
         THEN <<" ">> \o CollapseSpaces(TrimLeft(s))
         ELSE <<Head(s)>> \o CollapseSpaces(Tail(s))

StartsWith(s, p) == Len(s) >= Len(p) /\ SubSeq(s, 1, Len(p)) = p

\* cleanString: null for a missing or empty string, else the trimmed string
\* with inner whitespace collapsed (null when that is empty).
cleanString(str) ==
    IF ~Truthy(str) THEN Null
    ELSE LET c == CollapseSpaces(Trim(str))
         IN  IF c = <<>> THEN Null ELSE c

\* ------------------------------------------------------------------------
\* Structured parser (validation.js)
\* ------------------------------------------------------------------------
\* The longest prefix of s made of characters of set cs.
RECURSIVE TakeWhile(_, _)
TakeWhile(s, cs) ==
    IF s = <<>> \/ Head(s) \notin cs THEN <<>>
    ELSE <<Head(s)>> \o TakeWhile(Tail(s), cs)

\* s from its first character that is in cs (empty when there is none).
RECURSIVE DropUntil(_, _)
DropUntil(s, cs) ==
    IF s = <<>> \/ Head(s) \in cs THEN s ELSE DropUntil(Tail(s), cs)

\* The first match of a regular expression [cs]+ in s, or Null.
FirstRun(s, cs) ==
    LET t == DropUntil(s, cs)
    IN  IF t = <<>> THEN Null ELSE TakeWhile(t, cs)

\* All matches of /\d+/g in s, in order.
RECURSIVE DigitGroups(_)
DigitGroups(s) ==
    LET t == DropUntil(s, Digits)
    IN  IF t = <<>> THEN <<>>
        ELSE LET g == TakeWhile(t, Digits)
             IN  <<g>> \o DigitGroups(SubSeq(t, Len(g) + 1, Len(t)))

RECURSIVE StripCommas(_)
StripCommas(s) ==
    IF s = <<>> THEN <<>>
    ELSE IF Head(s) = "," THEN StripCommas(Tail(s))
         ELSE <<Head(s)>> \o StripCommas(Tail(s))

\* The value of a string of decimal digits.
RECURSIVE DigitsValue(_)
DigitsValue(s) ==
    IF s = <<>> THEN 0
    ELSE 10 * DigitsValue(SubSeq(s, 1, Len(s) - 1)) + DigitVal(s[Len(s)])

\* parseInt(s, 10) of text without sign: the leading digits, NaN (-1) when
\* there are none.
NaN == -1
parseInt(s) ==
    LET d == TakeWhile(s, Digits)
    IN  IF d = <<>> THEN NaN ELSE DigitsValue(d)

\* parseReviewCount: the first group of digits and commas, commas stripped,
\* as an integer; 0 when missing or not a number.
parseReviewCount(reviewText) ==
    IF ~Truthy(reviewText) THEN 0
    ELSE LET m == FirstRun(reviewText, Digits \cup {","})
         IN  IF m = Null THEN 0
             ELSE LET count == parseInt(StripCommas(m))
                  IN  IF count = NaN THEN 0 ELSE count

\* parseRating: the first token \d+\.?\d* of the text as a number, kept in
\* tenths (one decimal of the fraction is kept, which is what the ratings of
\* the listing service carry); null outside 0..5.
parseRating(ratingText) ==
    IF ~Truthy(ratingText) THEN NullNum
    ELSE LET t == DropUntil(ratingText, Digits)
         IN  IF t = <<>> THEN NullNum
             ELSE LET whole == TakeWhile(t, Digits)
                      rest  == SubSeq(t, Len(whole) + 1, Len(t))
                      frac  == IF rest # <<>> /\ Head(rest) = "."
                               THEN TakeWhile(Tail(rest), Digits) ELSE <<>>
                      tenths == 10 * DigitsValue(whole)
                                + (IF frac = <<>> THEN 0 ELSE DigitVal(frac[1]))
                  IN  IF tenths >= 0 /\ tenths <= 50 THEN tenths ELSE NullNum

\* ------------------------------------------------------------------------
\* URLs
\* ------------------------------------------------------------------------
MapsBase == "https://www.google.com/maps"

\* Scheme+host tokens that new URL() parses and that are http or https.
HttpOrigins == {MapsBase, "http://shop.example", "https://cafe.example"}

\* String.prototype.startsWith('http')
StartsWithHttp(url) == url # <<>> /\ url[1] \in HttpOrigins

\* validateUrl: null for a missing URL, for one that does not parse (no
\* scheme) and for a protocol other than http/https; else the normalised
\* href, in which an empty path is written "/".
validateUrl(url) ==
    IF ~Truthy(url) THEN Null
    ELSE IF url[1] \notin HttpOrigins THEN Null
    ELSE IF Len(url) = 1 /\ url[1] # MapsBase THEN url \o <<"/">>
    ELSE url

\* ------------------------------------------------------------------------
\* Emails (validation.js validateEmail).  An address is a sequence of
\* tokens: local part, "@", domain, with optional surrounding spaces.
\* ------------------------------------------------------------------------
toLowerCase(tok) ==
    CASE tok = "INFO" -> "info"
      [] tok = "Shop.Example" -> "shop.example"
      [] OTHER -> tok

LowerAll(s) == [k \in 1..Len(s) |-> toLowerCase(s[k])]

\* Tokens the character classes of emailRegex accept as a local part and
\* as a domain with a top-level domain of two or more letters.
LocalParts == {"info", "noreply", "joe"}
MailDomains == {"shop.example", "example.com", "cafe.example"}

\* config/email-blacklist.json
BlacklistDomains == {"example.com"}
BlacklistPatternNoreply(s) == Len(s) >= 2 /\ s[1] = "noreply" /\ s[2] = "@"

emailRegexTest(s) ==
    Len(s) = 3 /\ s[1] \in LocalParts /\ s[2] = "@" /\ s[3] \in MailDomains

validateEmail(email) ==
    IF ~Truthy(email) THEN Null
    ELSE LET trimmed == LowerAll(Trim(email))
         IN  IF \E k \in 1..Len(trimmed) : trimmed[k] \in BlacklistDomains
             THEN Null
             ELSE IF BlacklistPatternNoreply(trimmed) THEN Null
             ELSE IF emailRegexTest(trimmed) THEN trimmed ELSE Null

\* rawData.emails.map(validateEmail).filter(e => e !== null)
RECURSIVE ValidEmails(_)
ValidEmails(emails) ==
    IF emails = <<>> THEN <<>>
    ELSE LET e == validateEmail(Head(emails))
         IN  (IF e = Null THEN <<>> ELSE <<e>>) \o ValidEmails(Tail(emails))

\* ------------------------------------------------------------------------
\* Coordinates (validation.js parseCoordinates).  The part of a URL that
\* carries coordinates is written character by character.
\* ------------------------------------------------------------------------
\* JavaScript null for a coordinate, and the number a decimal literal
\* denotes: its sign, its whole part and its fraction digits without the
\* trailing zeros.
NullCoord == [ isNull |-> TRUE, neg |-> FALSE, whole |-> 0, frac |-> <<>> ]

RECURSIVE StripTrailingZeros(_)
StripTrailingZeros(ds) ==
    IF ds # <<>> /\ ds[Len(ds)] = "0"
    THEN StripTrailingZeros(SubSeq(ds, 1, Len(ds) - 1))
    ELSE ds

\* parseFloat of a match of -?\d+\.\d+
parseFloat(neg, whole, frac) ==
    [ isNull |-> FALSE, neg |-> neg, whole |-> DigitsValue(whole),
      frac |-> StripTrailingZeros(frac) ]

\* A match of (-?\d+\.\d+) at the start of s: the number and what follows
\* it, or no match.
MatchDecimal(s) ==
    LET neg   == s # <<>> /\ Head(s) = "-"
        t     == IF neg THEN Tail(s) ELSE s
        whole == TakeWhile(t, Digits)
        u     == SubSeq(t, Len(whole) + 1, Len(t))
        frac  == IF u # <<>> /\ Head(u) = "." THEN TakeWhile(Tail(u), Digits)
                 ELSE <<>>
    IN  IF whole = <<>> \/ frac = <<>>
        THEN [ ok |-> FALSE, num |-> NullCoord, rest |-> <<>> ]
        ELSE [ ok |-> TRUE, num |-> parseFloat(neg, whole, frac),
               rest |-> SubSeq(u, Len(frac) + 2, Len(u)) ]

NoDecimal == [ ok |-> FALSE, num |-> NullCoord, rest |-> <<>> ]

\* sep and the second number, after the first number matched.
MatchSecond(first, sep) ==
    IF ~first.ok \/ ~StartsWith(first.rest, sep) THEN NoDecimal
    ELSE MatchDecimal(SubSeq(first.rest, Len(sep) + 1, Len(first.rest)))

\* The groups of a match: both numbers, or no match.
PairResult(first, second) ==
    IF ~first.ok \/ ~second.ok THEN [ ok |-> FALSE ]
    ELSE [ ok |-> TRUE, latitude |-> first.num, longitude |-> second.num ]

PairAfter(first, sep) == PairResult(first, MatchSecond(first, sep))

\* A match of  lead (-?\d+\.\d+) sep (-?\d+\.\d+)  at the start of s.
MatchPairHere(s, lead, sep) ==
    IF ~StartsWith(s, lead) THEN [ ok |-> FALSE ]
    ELSE PairAfter(MatchDecimal(SubSeq(s, Len(lead) + 1, Len(s))), sep)

\* The first match of a sequence of attempts, or no match.
RECURSIVE FirstOk(_)
FirstOk(attempts) ==
    IF attempts = <<>> THEN [ ok |-> FALSE ]
    ELSE IF Head(attempts).ok THEN Head(attempts)
    ELSE FirstOk(Tail(attempts))

\* url.match(/lead(-?\d+\.\d+)sep(-?\d+\.\d+)/): the leftmost match.
MatchPair(s, lead, sep) ==
    FirstOk([ k \in 1..Len(s) |->
                MatchPairHere(SubSeq(s, k, Len(s)), lead, sep) ])

\* -limit <= num <= limit
WithinRange(num, limit) ==
    num.whole < limit \/ (num.whole = limit /\ num.frac = <<>>)

\* latitude >= -90 && latitude <= 90 && longitude >= -180 && longitude <= 180
ValidCoordinates(m) ==
    m.ok /\ WithinRange(m.latitude, 90) /\ WithinRange(m.longitude, 180)

NoCoordinates == [ latitude |-> NullCoord, longitude |-> NullCoord ]

AtMatch(url) == MatchPair(url, <<"@">>, <<",">>)
BangMatch(url) == MatchPair(url, <<"!", "3", "d">>, <<"!", "4", "d">>)

\* The coordinates of the first of two matches that is within range, else
\* both null.
FirstValid(m1, m2) ==
    IF ValidCoordinates(m1)
    THEN [ latitude |-> m1.latitude, longitude |-> m1.longitude ]
    ELSE IF ValidCoordinates(m2)
    THEN [ latitude |-> m2.latitude, longitude |-> m2.longitude ]
    ELSE NoCoordinates

\* parseCoordinates with the !3d!4d pattern tried first.
parseCoordinatesBangFirst(url) ==
    IF ~Truthy(url) THEN NoCoordinates
    ELSE FirstValid(BangMatch(url), AtMatch(url))

\* parseCoordinates: the @lat,lng pattern first, then !3dLAT!4dLNG; a match
\* out of range is passed over; else both null.
parseCoordinates(url) ==
    IF ~Truthy(url) THEN NoCoordinates
    ELSE FirstValid(AtMatch(url), BangMatch(url))

\* ------------------------------------------------------------------------
\* Validator and filter (validation.js)
\* ------------------------------------------------------------------------
\* validateBusinessData: always builds a record; a missing or blank name
\* gives businessName = null in that record.
BuildValidated(rawData, coords) ==
    [ businessName  |-> cleanString(rawData.businessName),
      website       |-> validateUrl(rawData.website),
      rating        |-> parseRating(rawData.rating),
      reviewCount   |-> parseReviewCount(rawData.reviewCount),
      priceLevel    |-> IF Truthy(rawData.priceLevel) THEN rawData.priceLevel ELSE Null,
      priceRange    |-> IF Truthy(rawData.priceRange) THEN rawData.priceRange ELSE Null,
      googleMapsUrl |-> validateUrl(rawData.googleMapsUrl),
      latitude      |-> coords.latitude,
      longitude     |-> coords.longitude,
      emails        |-> ValidEmails(rawData.emails),
      emailSource   |-> IF rawData.emailSource = "" THEN "not_found"
                        ELSE rawData.emailSource ]

\* const coords = parseCoordinates(rawData.googleMapsUrl); return {...}
validateBusinessData(rawData) ==
    BuildValidated(rawData, parseCoordinates(rawData.googleMapsUrl))

\* if (!validatedData) continue;   an object is never falsy
IsFalsyRecord(validatedData) == FALSE

\* The rating filter: a record fails it when it has a (non-zero) rating
\* below the minimum.
RatingFilterFails(business, filters) ==
    /\ filters.minRating > 0
    /\ business.rating # NullNum /\ business.rating # 0
    /\ business.rating < filters.minRating

\* The review filter: a record fails it when it has a non-zero review count
\* below the minimum.
ReviewFilterFails(business, filters) ==
    /\ filters.minReviews > 0
    /\ business.reviewCount # 0
    /\ business.reviewCount < filters.minReviews

\* A price-tier filter that also excludes records without a price level.
PriceLevelFilterFailsOnMissing(business, filters) ==
    /\ filters.filterByPriceLevel # {}
    /\ business.priceLevel \notin filters.filterByPriceLevel

\* The price-tier filter: a record fails it when it has a price level that
\* is not in the allowed set.
PriceLevelFilterFails(business, filters) ==
    /\ filters.filterByPriceLevel # {}
    /\ business.priceLevel # Null
    /\ business.priceLevel \notin filters.filterByPriceLevel

\* A price-range filter whose max-price test is >= instead of >.
PriceRangeFilterFailsAtMax(business, filters) ==
    /\ filters.minPrice > 0 \/ filters.maxPrice > 0
    /\ business.priceRange # Null
    /\ LET priceNumbers == DigitGroups(business.priceRange)
       IN  /\ Len(priceNumbers) > 0
           /\ LET businessMinPrice == parseInt(priceNumbers[1])
              IN  \/ filters.minPrice > 0 /\ businessMinPrice < filters.minPrice
                  \/ /\ filters.maxPrice > 0
                     /\ \/ \E k \in 1..Len(business.priceRange) :
                               business.priceRange[k] = "+"
                        \/ Len(priceNumbers) = 2
                     /\ businessMinPrice >= filters.maxPrice

\* The price-range filter: a record with a price range fails it when the
\* first number of the range is below minPrice, or above maxPrice for a
\* range with a "+" or with two numbers.
PriceRangeFilterFails(business, filters) ==
    /\ filters.minPrice > 0 \/ filters.maxPrice > 0
    /\ business.priceRange # Null
    /\ LET priceNumbers == DigitGroups(business.priceRange)
       IN  /\ Len(priceNumbers) > 0
           /\ LET businessMinPrice == parseInt(priceNumbers[1])
              IN  \/ filters.minPrice > 0 /\ businessMinPrice < filters.minPrice
                  \/ /\ filters.maxPrice > 0
                     /\ \/ \E k \in 1..Len(business.priceRange) :
                               business.priceRange[k] = "+"
                        \/ Len(priceNumbers) = 2
                     /\ businessMinPrice > filters.maxPrice

meetsFilterCriteria(business, filters) ==
    /\ ~RatingFilterFails(business, filters)
    /\ ~ReviewFilterFails(business, filters)
    /\ ~PriceLevelFilterFails(business, filters)
    /\ ~PriceRangeFilterFails(business, filters)

\* ------------------------------------------------------------------------
\* The rendered cards and their detail views
\* ------------------------------------------------------------------------
ResultsHeading == <<"R", "e", "s", "u", "l", "t", "s">>
ResultsForPrefix == ResultsHeading \o <<" ", "f", "o", "r">>

NoView ==
    [ selTexts |-> <<>>, panel |-> FALSE, h1s |-> <<>>,
      ratingLabel |-> Null, reviewsLabel |-> Null,
      priceLevel |-> Null, priceRange |-> Null,
      website |-> Null, profileEmail |-> Null ]

\* The cards the feed can render.  Each card has the href of its link, the
\* DOM of the detail view that opens when it is clicked, and what can go
\* wrong with its link on a visit: nothing, the click fails (the element is
\* detached or covered), or the href attribute is missing:
\*   1  relative href, name under the second name selector, 1,234 reviews,
\*      a mailto link
\*   2  no heading at all; the click can fail
\*   3  absolute href of the listing of card 1, name in the details
\*      panel's second h1 (the first is the generic "Results"), no review
\*      element
\*   4  no heading text, an h1 whose aria-label is blank, 2 reviews
\*   5  only the generic "Results" heading; the href can be missing
CardTable ==
    << [ href |-> <<"/place/a">>, fragile |-> "none",
         view |-> [ NoView EXCEPT
                      !.selTexts = <<Null, <<" ", "J", "o", " ">> >>,
                      !.ratingLabel = <<"4", ".", "5", " ", "star">>,
                      !.reviewsLabel = <<"1", ",", "2", "3", "4", " ", "review">>,
                      !.priceLevel = <<"$", "$">>,
                      !.website = <<"http://shop.example">>,
                      !.profileEmail = <<"INFO", "@", "Shop.Example">> ] ],
       [ href |-> <<"/place/b">>, fragile |-> "click", view |-> NoView ],
       [ href |-> <<MapsBase, "/place/a">>, fragile |-> "none",
         view |-> [ NoView EXCEPT
                      !.panel = TRUE,
                      !.h1s = << [ text |-> ResultsHeading, aria |-> Null ],
                                 [ text |-> <<" ", "J", " ", " ", "o">>, aria |-> Null ] >>,
                      !.ratingLabel = <<"0", " ", "star">>,
                      !.website = <<"ftp://files.example">> ] ],
       [ href |-> <<"/place/d">>, fragile |-> "none",
         view |-> [ NoView EXCEPT
                      !.selTexts = << <<" ">> >>,
                      !.panel = TRUE,
                      !.h1s = << [ text |-> <<" ">>, aria |-> <<" ", " ">> ] >>,
                      !.ratingLabel = <<"3", " ", "star">>,
                      !.reviewsLabel = <<"2", " ", "review">>,
                      !.priceRange = <<"$", "3", "0", "-", "4", "0">> ] ],
       [ href |-> <<"/place/e">>, fragile |-> "href",
         view |-> [ NoView EXCEPT
                      !.panel = TRUE,
                      !.h1s = << [ text |-> ResultsHeading, aria |-> Null ] >> ] ] >>

Cards == 1..Len(CardTable)

\* ------------------------------------------------------------------------
\* Field extractor (scraper.js)
\* ------------------------------------------------------------------------
\* extractText: the trimmed text of the first selector whose element has
\* text that is not blank, else null.
RECURSIVE extractText(_)
extractText(texts) ==
    IF texts = <<>> THEN Null
    ELSE IF Truthy(Head(texts)) /\ Trim(Head(texts)) # <<>>
         THEN Trim(Head(texts))
         ELSE extractText(Tail(texts))

IsGenericHeading(text) ==
    text = ResultsHeading \/ StartsWith(text, ResultsForPrefix)

\* The first h1 of the details panel whose trimmed text is a plausible name.
RECURSIVE FirstPanelHeading(_)
FirstPanelHeading(h1s) ==
    IF h1s = <<>> THEN Null
    ELSE LET text == IF Head(h1s).text = Null THEN Null
                     ELSE Trim(Head(h1s).text)
         IN  IF Truthy(text) /\ ~IsGenericHeading(text) THEN text
             ELSE FirstPanelHeading(Tail(h1s))

\* The aria-label of the first labelled h1 of the details panel, as it is.
RECURSIVE FirstHeadingLabel(_)
FirstHeadingLabel(h1s) ==
    IF h1s = <<>> THEN Null
    ELSE IF Truthy(Head(h1s).aria) THEN Head(h1s).aria
         ELSE FirstHeadingLabel(Tail(h1s))

\* Strategy 2 of the name extraction: the details panel only.
PanelName(view) ==
    IF ~view.panel THEN Null
    ELSE IF FirstPanelHeading(view.h1s) # Null THEN FirstPanelHeading(view.h1s)
    ELSE FirstHeadingLabel(view.h1s)

ExtractName(view) ==
    IF Truthy(extractText(view.selTexts)) THEN extractText(view.selTexts)
    ELSE PanelName(view)

\* The number token \d+\.?\d* at the start of s (empty when s does not start
\* with a digit).
NumberToken(s) ==
    LET whole == TakeWhile(s, Digits)
        rest  == SubSeq(s, Len(whole) + 1, Len(s))
    IN  IF whole = <<>> THEN <<>>
        ELSE IF rest # <<>> /\ Head(rest) = "."
             THEN whole \o <<".">> \o TakeWhile(Tail(rest), Digits)
             ELSE whole

\* tok is followed in s by white space and then the word.
FollowedBy(s, tok, word) ==
    LET rest == SubSeq(s, Len(tok) + 1, Len(s))
        sp   == TakeWhile(rest, {" ", "\t", "\n"})
    IN  sp # <<>> /\ Len(rest) > Len(sp) /\ rest[Len(sp) + 1] = word

\* ARIA_PATTERNS.rating: group 1 of /(\d+\.?\d*)\s+star/i, or Null.
RECURSIVE MatchRating(_)
MatchRating(label) ==
    IF label = <<>> THEN Null
    ELSE LET tok == NumberToken(label)
         IN  IF tok # <<>> /\ FollowedBy(label, tok, "star") THEN tok
             ELSE MatchRating(Tail(label))

\* ARIA_PATTERNS.reviews: group 1 of /([\d,]+)\s+review/i, or Null.
RECURSIVE MatchReviews(_)
MatchReviews(label) ==
    IF label = <<>> THEN Null
    ELSE LET tok == TakeWhile(label, Digits \cup {","})
         IN  IF tok # <<>> /\ FollowedBy(label, tok, "review") THEN tok
             ELSE MatchReviews(Tail(label))

\* businessUrl.startsWith('http') ? businessUrl : base + businessUrl
FullUrl(businessUrl) ==
    IF StartsWithHttp(businessUrl) THEN businessUrl
    ELSE <<MapsBase>> \o businessUrl

\* The raw record extractBusinessData builds for a card whose name was found.
RawData(card) ==
    LET view == card.view IN
    [ businessName  |-> ExtractName(view),
      website       |-> view.website,
      rating        |-> IF view.ratingLabel = Null THEN Null
                        ELSE MatchRating(view.ratingLabel),
      reviewCount   |-> IF view.reviewsLabel = Null
                           \/ MatchReviews(view.reviewsLabel) = Null
                        THEN <<"0">>
                        ELSE MatchReviews(view.reviewsLabel),
      priceLevel    |-> view.priceLevel,
      priceRange    |-> view.priceRange,
      googleMapsUrl |-> FullUrl(card.href),
      emails        |-> IF Truthy(view.profileEmail) THEN <<view.profileEmail>>
                        ELSE <<>>,
      emailSource   |-> IF Truthy(view.profileEmail) THEN "google_profile"
                        ELSE "not_found" ]

\* The skip test without the seen set.
SkipsCardNoSeen(businessUrl, seen) == ~Truthy(businessUrl)

\* if (!businessUrl || seenUrls.has(businessUrl)) return null;
SkipsCard(businessUrl, seen) == ~Truthy(businessUrl) \/ businessUrl \in seen

\* The raw and the validated record of every card.
Raw == [c \in Cards |-> RawData(CardTable[c])]
Validated == [c \in Cards |-> validateBusinessData(Raw[c])]

\* businessLink.getAttribute('href') on a visit of card c.
HrefRead(c, glitch) ==
    IF glitch /\ CardTable[c].fragile = "href" THEN Null ELSE CardTable[c].href

\* How extractBusinessData ends for card c on a visit:
\*   "skip"        no href or href already seen (null, no click)
\*   "throw_click" the click failed after the href was recorded (caught, null)
\*   "no_name"     the detail view opened but no name was found (null)
\*   "data"        a raw record is returned
ExtractOutcome(c, seen, glitch) ==
    IF SkipsCard(HrefRead(c, glitch), seen) THEN "skip"
    ELSE IF glitch /\ CardTable[c].fragile = "click" THEN "throw_click"
    ELSE IF ~Truthy(Raw[c].businessName) THEN "no_name"
    ELSE "data"

\* validateBusinessData throws when it has an email to validate and the
\* blacklist file cannot be read (loadEmailBlacklist, readFileSync).
ValidationThrows(rawData, readable) == rawData.emails # <<>> /\ ~readable

\* How one pass of the for loop's body ends:
\*   the outcomes of extractBusinessData that give no record, or
\*   "throw_validate" validateBusinessData threw (caught by the loop)
\*   "invalid"        validateBusinessData returned a falsy value
\*   "filtered"       meetsFilterCriteria returned false
\*   "accepted"       the validated record is pushed
CardOutcome(c, seen, glitch, flt, readable) ==
    LET outcome == ExtractOutcome(c, seen, glitch) IN
    IF outcome # "data" THEN outcome
    ELSE IF ValidationThrows(Raw[c], readable) THEN "throw_validate"
    ELSE IF IsFalsyRecord(Validated[c]) THEN "invalid"
    ELSE IF ~meetsFilterCriteria(Validated[c], flt) THEN "filtered"
    ELSE "accepted"

\* The outcomes in which the href was added to seenUrls and the card's link
\* was clicked.
Clicked(outcome) == outcome \notin {"skip"}

\* The outcomes in which an error was raised and caught.
Thrown == {"throw_click", "throw_validate"}

\* A loop body whose errors are not caught.
PcAfterCardUncaught(outcome) ==
    IF outcome \in Thrown THEN "error" ELSE "for"

\* Where the walk is after a pass of the for loop's body: both try/catch
\* blocks swallow the error, so the loop goes on.
PcAfterCard(outcome) == "for"

\* A loop body that also pushes the records the filter rejected.
AcceptedOrFiltered(outcome) == outcome \in {"accepted", "filtered"}

\* if (meetsFilterCriteria(validatedData, filters)) businesses.push(...)
Accepted(outcome) == outcome = "accepted"

\* businesses.unshift(validatedData)
Unshift(result, rec) == <<rec>> \o result

\* businesses.push(validatedData)
Push(result, rec) == Append(result, rec)

\* ------------------------------------------------------------------------
\* Listing walker (scraper.js extractBusinessListings)
\* ------------------------------------------------------------------------
VARIABLES
    pc,                 \* position of the walk: "while", "for", "scroll",
                        \* "done" (returned), "error" (threw)
    maxResults,         \* the result cap
    filters,            \* the filter thresholds
    blacklistReadable,  \* config/email-blacklist.json can be read
    feedLimit,          \* the number of listings the search has
    businessLinks,      \* the cards of the last enumeration (page.$$)
    i,                  \* index of the for loop (0-based)
    previousCount,
    noNewResultsCount,
    businesses,         \* the result
    seenUrls,
    \* history variables
    lastOutcome,        \* how the last pass of the for loop's body ended
    origin,             \* origin[k]: the card businesses[k] was made from
    clicks,             \* the hrefs clicked, in order
    visible,            \* the cards in the order they were first enumerated
    rerenders,          \* enumerations that did not extend the previous one
    shrunk              \* some enumeration had fewer cards than the previous

\* One record through the validator and the filter (validation.js)
VARIABLES
    recPc,              \* "idle", "raw", "threw", "validated", "filtered",
                        \* "revalidated"
    recRaw,            \* the raw record given to validateBusinessData
    recValidated,      \* what validateBusinessData returned for it
    filterArg,          \* the filters given to meetsFilterCriteria
    verdict,            \* what meetsFilterCriteria returned
    revalidated         \* validateBusinessData of recValidated

\* Email enrichment (batchFindEmails, findEmailOnWebsite)
VARIABLES
    batchPc,            \* "idle", "running", "returned"
    batch,              \* the businesses array given to batchFindEmails
    concurrency,        \* the limit given to pLimit
    taskPc,             \* per task: "queued", "run", "context", "page",
                        \* "contacts", "finally", "write", "done"
    context,            \* per task: its browser context is open
    page,               \* per task: its page is open
    allEmails,          \* per task: the emails collected so far
    linkIdx,            \* per task: contact links visited so far
    taskResult,         \* per task: what findEmailOnWebsite returns
    \* history variables
    input,              \* the array as it was given
    loaded,             \* per task: the pages that loaded (0: the homepage,
                        \* 1, 2: the contact pages)
    exitPath,           \* per task: how findEmailOnWebsite ended
    writers,            \* per record: the tasks that wrote to it
    visits              \* per task: the pages navigated to, in order (0: the
                        \* homepage, n: the n-th contact link)

\* A run (main, scrapeGoogleMaps)
VARIABLES
    runPc,              \* "idle", "main", "launch", "newPage", "goto", "wait",
                        \* "walk", "enrich", "catch", "finally",
                        \* "closeBrowser", "push", "mainCatch", "exit"
    browser,            \* "none" (null), "open", "closed"
    listingPage,        \* "none" (null), "open", "closed"
    waited,             \* the selectors waitForSearchResults has waited for
    failure,            \* the step that threw, "none" when none did
    returned,           \* the businesses array of scrapeGoogleMaps
    dataset,            \* what was given to Actor.pushData
    exitError,          \* the error main ends with, "none" without one
    calls               \* history: the calls of scrapeGoogleMaps

walkVars == << pc, maxResults, filters, blacklistReadable, feedLimit,
               businessLinks, i,
               previousCount, noNewResultsCount, businesses, seenUrls,
               lastOutcome, origin, clicks, visible, rerenders, shrunk >>

recVars == << recPc, recRaw, recValidated, filterArg, verdict, revalidated >>

enrichVars == << batchPc, batch, concurrency, taskPc, context, page,
                 allEmails, linkIdx, taskResult, input, loaded, exitPath,
                 writers, visits >>

\* Business hours of one detail view (extractHoursData)
VARIABLES
    hoursPc,            \* "idle", "labels", "extracted", "validated"
    ariaLabels,         \* aria-labels of the "Copy open hours" buttons
    hoursData,          \* what extractHoursData returned
    validatedHours      \* what validateBusinessHours returned for it

hoursVars == << hoursPc, ariaLabels, hoursData, validatedHours >>

\* No hours are being extracted.
HoursIdle ==
    /\ hoursPc = "idle"
    /\ ariaLabels = <<>>
    /\ hoursData = <<>>
    /\ validatedHours = <<>>

runVars == << runPc, browser, listingPage, waited, failure, returned,
              dataset, exitError, calls >>

vars == << walkVars, recVars, enrichVars, runVars, hoursVars >>

\* No run is going on.
RunIdle ==
    /\ runPc = "idle"
    /\ browser = "none"
    /\ listingPage = "none"
    /\ waited = <<>>
    /\ failure = "none"
    /\ returned = <<>>
    /\ dataset = <<>>
    /\ exitError = "none"
    /\ calls = 0

\* No record is being validated outside the walk.
RecIdle ==
    /\ recPc = "idle"
    /\ recRaw = Null
    /\ recValidated = Null
    /\ filterArg = Null
    /\ verdict = Null
    /\ revalidated = Null

\* batchFindEmails has not been called.
EnrichIdle ==
    /\ batchPc = "idle"
    /\ batch = <<>>
    /\ concurrency = 0
    /\ taskPc = <<>>
    /\ context = <<>>
    /\ page = <<>>
    /\ allEmails = <<>>
    /\ linkIdx = <<>>
    /\ taskResult = <<>>
    /\ input = <<>>
    /\ loaded = <<>>
    /\ exitPath = <<>>
    /\ writers = <<>>
    /\ visits = <<>>

NoFilters ==
    [ minRating |-> 0, minReviews |-> 0, filterByPriceLevel |-> {},
      minPrice |-> 0, maxPrice |-> 0 ]

\* The filter settings tried.
FilterChoices ==
    { NoFilters,
      [ NoFilters EXCEPT !.minReviews = 3 ] }

StallLimit == 3

\* while (businesses.length < maxResults)
WhileCond(result, cap) == Len(result) < cap

\* The for loop without the cap test.
ForCondNoCap(idx, links, result, cap) == idx < Len(links)

\* i < businessLinks.length && businesses.length < maxResults
ForCond(idx, links, result, cap) == idx < Len(links) /\ Len(result) < cap

\* businessLinks.length === previousCount
NoNewResults(links, prev) == Len(links) = prev

\* noNewResultsCount >= 3
StallReached(count) == count >= StallLimit

\* A counter that forgets every stall.
StallCountForgotten(stalled, count) == 0

\* noNewResultsCount++ when nothing new was rendered, = 0 otherwise
StallCount(stalled, count) == IF stalled THEN count + 1 ELSE 0

RECURSIVE SeqsUpTo(_, _)
SeqsUpTo(S, n) ==
    IF n <= 0 THEN {<<>>}
    ELSE LET shorter == SeqsUpTo(S, n - 1)
         IN  shorter \cup { Append(q, x) : q \in { r \in shorter : Len(r) = n - 1 }, x \in S }

IsPrefix(p, q) == Len(p) <= Len(q) /\ SubSeq(q, 1, Len(p)) = p

\* What the feed can render at the next enumeration, given what it rendered
\* at the last one.  An append-only feed renders the same cards with more
\* cards appended.  A feed can also re-render: replace its list by any other
\* list (cards dropped, inserted, reordered); from then on it renders at
\* most MaxLinks cards.
Extensions == [n \in 0..(LongLinks + 1) |-> SeqsUpTo(Cards, n)]

Appended(links, bound) ==
    IF Len(links) > bound THEN {links}
    ELSE { links \o ext : ext \in Extensions[bound - Len(links)] }

Rerendered(links) ==
    { l \in Extensions[MaxRerenderLinks] : ~IsPrefix(links, l) }

FeedChoices(links, n, limit) ==
    Appended(links, IF n = 0 THEN limit ELSE MaxLinks)
    \cup (IF n < MaxRerenders /\ Len(links) <= MaxReplaced
          THEN Rerendered(links) ELSE {})

\* The cards of links that are not in seq, appended to seq in their order.
RECURSIVE AddVisible(_, _)
AddVisible(seq, links) ==
    IF links = <<>> THEN seq
    ELSE IF \E k \in 1..Len(seq) : seq[k] = Head(links)
         THEN AddVisible(seq, Tail(links))
         ELSE AddVisible(Append(seq, Head(links)), Tail(links))

Init ==
    /\ pc = "while"
    /\ maxResults \in 0..MaxMaxResults
    /\ filters \in FilterChoices
    /\ blacklistReadable \in BOOLEAN
    /\ feedLimit = IF /\ maxResults = MaxMaxResults
                      /\ filters = NoFilters
                      /\ blacklistReadable
                   THEN LongLinks ELSE MaxLinks
    /\ businessLinks = <<>>
    /\ i = 0
    /\ previousCount = 0
    /\ noNewResultsCount = 0
    /\ businesses = <<>>
    /\ seenUrls = {}
    /\ lastOutcome = "none"
    /\ origin = <<>>
    /\ clicks = <<>>
    /\ visible = <<>>
    /\ rerenders = 0
    /\ shrunk = FALSE
    /\ RecIdle
    /\ EnrichIdle
    /\ RunIdle
    /\ HoursIdle

\* Every cap, no filter, short feeds only.
InitShort ==
    /\ pc = "while"
    /\ maxResults \in 0..MaxMaxResults
    /\ filters = NoFilters
    /\ blacklistReadable = TRUE
    /\ feedLimit = MaxLinks
    /\ businessLinks = <<>>
    /\ i = 0
    /\ previousCount = 0
    /\ noNewResultsCount = 0
    /\ businesses = <<>>
    /\ seenUrls = {}
    /\ lastOutcome = "none"
    /\ origin = <<>>
    /\ clicks = <<>>
    /\ visible = <<>>
    /\ rerenders = 0
    /\ shrunk = FALSE
    /\ RecIdle
    /\ EnrichIdle
    /\ RunIdle
    /\ HoursIdle

\* The while test fails: return businesses.
WhileExit ==
    /\ pc = "while"
    /\ ~WhileCond(businesses, maxResults)
    /\ pc' = "done"
    /\ UNCHANGED << maxResults, filters, blacklistReadable, feedLimit,
                    businessLinks, i,
                    previousCount, noNewResultsCount, businesses, seenUrls,
                    lastOutcome, origin, clicks, visible, rerenders, shrunk >>
    /\ UNCHANGED << recVars, enrichVars, runVars, hoursVars >>

\* const businessLinks = await page.$$(SELECTORS.businessCard); i = previousCount
Enumerate ==
    /\ pc = "while"
    /\ WhileCond(businesses, maxResults)
    /\ \E links \in FeedChoices(businessLinks, rerenders, feedLimit) :
          /\ businessLinks' = links
          /\ visible' = AddVisible(visible, links)
          /\ rerenders' = IF IsPrefix(businessLinks, links) THEN rerenders
                          ELSE rerenders + 1
          /\ shrunk' = (shrunk \/ Len(links) < Len(businessLinks))
    /\ i' = previousCount
    /\ pc' = "for"
    /\ lastOutcome' = "none"
    /\ UNCHANGED << maxResults, filters, blacklistReadable, feedLimit,
                    previousCount,
                    noNewResultsCount, businesses, seenUrls,
                    origin, clicks >>
    /\ UNCHANGED << recVars, enrichVars, runVars, hoursVars >>

\* page.$$ throws (the page is gone): the walk throws.
EnumerateFails ==
    /\ pc = "while"
    /\ WhileCond(businesses, maxResults)
    /\ pc' = "error"
    /\ UNCHANGED << maxResults, filters, blacklistReadable, feedLimit,
                    businessLinks, i,
                    previousCount, noNewResultsCount, businesses, seenUrls,
                    lastOutcome, origin, clicks, visible, rerenders, shrunk >>
    /\ UNCHANGED << recVars, enrichVars, runVars, hoursVars >>

\* One pass of the for loop's body: extractBusinessData, validateBusinessData,
\* meetsFilterCriteria, push; every error is caught.
ProcessCard ==
    /\ pc = "for"
    /\ ForCond(i, businessLinks, businesses, maxResults)
    /\ LET c == businessLinks[i + 1]
       IN  \E glitch \in (IF CardTable[c].fragile = "none" THEN {FALSE}
                          ELSE BOOLEAN) :
             LET outcome == CardOutcome(c, seenUrls, glitch,
                                        filters, blacklistReadable)
             IN  /\ lastOutcome' = outcome
                 /\ seenUrls' = IF Clicked(outcome)
                                THEN seenUrls \cup {CardTable[c].href}
                                ELSE seenUrls
                 /\ clicks' = IF Clicked(outcome)
                              THEN Append(clicks, CardTable[c].href)
                              ELSE clicks
                 /\ businesses' =
                        IF Accepted(outcome)
                        THEN Push(businesses, Validated[c])
                        ELSE businesses
                 /\ origin' = IF Accepted(outcome) THEN Push(origin, c)
                              ELSE origin
                 /\ pc' = PcAfterCard(outcome)
    /\ i' = i + 1
    /\ UNCHANGED << maxResults, filters, blacklistReadable, feedLimit,
                    businessLinks,
                    previousCount, noNewResultsCount, visible, rerenders,
                    shrunk >>
    /\ UNCHANGED << recVars, enrichVars, runVars, hoursVars >>

\* After the for loop: the stall check, previousCount, the cap check.
EndIteration ==
    /\ pc = "for"
    /\ ~ForCond(i, businessLinks, businesses, maxResults)
    /\ LET stalled == NoNewResults(businessLinks, previousCount)
           count   == StallCount(stalled, noNewResultsCount)
       IN  /\ noNewResultsCount' = count
           /\ IF stalled /\ StallReached(count)
              THEN /\ pc' = "done"
                   /\ UNCHANGED previousCount
              ELSE /\ previousCount' = Len(businessLinks)
                   /\ pc' = IF Len(businesses) >= maxResults THEN "done"
                            ELSE "scroll"
    /\ UNCHANGED << maxResults, filters, blacklistReadable, feedLimit,
                    businessLinks, i,
                    businesses, seenUrls, lastOutcome, origin, clicks,
                    visible, rerenders, shrunk >>
    /\ UNCHANGED << recVars, enrichVars, runVars, hoursVars >>

\* scrollSidebar (its errors are caught), randomDelay, waitForTimeout.
Scroll ==
    /\ pc = "scroll"
    /\ pc' = "while"
    /\ UNCHANGED << maxResults, filters, blacklistReadable, feedLimit,
                    businessLinks, i,
                    previousCount, noNewResultsCount, businesses, seenUrls,
                    lastOutcome, origin, clicks, visible, rerenders, shrunk >>
    /\ UNCHANGED << recVars, enrichVars, runVars, hoursVars >>

\* page.waitForTimeout throws after the scroll (the page is gone).
ScrollFails ==
    /\ pc = "scroll"
    /\ pc' = "error"
    /\ UNCHANGED << maxResults, filters, blacklistReadable, feedLimit,
                    businessLinks, i,
                    previousCount, noNewResultsCount, businesses, seenUrls,
                    lastOutcome, origin, clicks, visible, rerenders, shrunk >>
    /\ UNCHANGED << recVars, enrichVars, runVars, hoursVars >>

Next ==
    \/ WhileExit
    \/ Enumerate
    \/ EnumerateFails
    \/ ProcessCard
    \/ EndIteration
    \/ Scroll
    \/ ScrollFails

Spec == Init /\ [][Next]_vars

\* Every DOM interaction returns or fails, so the walk always takes its next
\* step.
FairSpec == InitShort /\ [][Next]_vars /\ WF_vars(Next)

\* ------------------------------------------------------------------------
\* One record through validateBusinessData and meetsFilterCriteria
\* ------------------------------------------------------------------------
\* The walk is not running.
WalkIdle ==
    /\ pc = "idle"
    /\ maxResults = 0
    /\ filters = NoFilters
    /\ feedLimit = 0
    /\ businessLinks = <<>>
    /\ i = 0
    /\ previousCount = 0
    /\ noNewResultsCount = 0
    /\ businesses = <<>>
    /\ seenUrls = {}
    /\ lastOutcome = "none"
    /\ origin = <<>>
    /\ clicks = <<>>
    /\ visible = <<>>
    /\ rerenders = 0
    /\ shrunk = FALSE

\* The raw records tried: what extractBusinessData can return for a listing.
RawChoices ==
    { [ businessName  |-> name,
        website       |-> site,
        rating        |-> rating,
        reviewCount   |-> reviews,
        priceLevel    |-> level,
        priceRange    |-> range,
        googleMapsUrl |-> <<MapsBase, "/place/a">>,
        emails        |-> IF mailto THEN << <<"INFO", "@", "Shop.Example">> >>
                          ELSE <<>>,
        emailSource   |-> IF mailto THEN "google_profile" ELSE "not_found" ] :
      name    \in { <<" ", "J", " ", " ", "o">>, <<" ", " ">> },
      site    \in { Null, <<"http://shop.example">> },
      rating  \in { Null, <<"0">>, <<"3", ".", "5">>, <<"4", ".", "5">> },
      reviews \in { <<"0">>, <<"2">>, <<"1", ",", "2", "3", "4">> },
      level   \in { Null, <<"$">>, <<"$", "$">> },
      range   \in { Null,
                    <<"$", "3", "0">>,
                    <<"$", "3", "0", "-", "4", "0">>,
                    <<"$", "5", "0", "-", "1", "0", "0">>,
                    <<"$", "1", "0", "0", "+">> },
      mailto  \in BOOLEAN }

\* The filter settings tried on one record (ratings in tenths).
FilterArgs ==
    { [ minRating |-> r, minReviews |-> n, filterByPriceLevel |-> t,
        minPrice |-> lo, maxPrice |-> hi ] :
      r  \in {0, 40},
      n  \in {0, 3},
      t  \in { {}, { <<"$">> } },
      lo \in {0, 50},
      hi \in {0, 20, 50, 60, 150} }

\* parseRating of a value that is a number: null and 0 are falsy and give
\* null; any other number has no match method, a TypeError.
ParseRatingThrows(rating) == rating # NullNum /\ rating # 0

\* parseReviewCount of a value that is a number: 0 is falsy and gives 0; any
\* other number has no match method, a TypeError.
ParseReviewCountThrows(count) == count # 0

\* validateBusinessData of a record that validateBusinessData returned: it
\* throws, or it returns a record (rating and reviewCount were falsy).
Revalidate(business) ==
    IF ParseRatingThrows(business.rating)
       \/ ParseReviewCountThrows(business.reviewCount)
    THEN [ threw |-> TRUE ]
    ELSE [ threw |-> FALSE,
           value |->
             [ businessName  |-> cleanString(business.businessName),
               website       |-> validateUrl(business.website),
               rating        |-> NullNum,
               reviewCount   |-> 0,
               priceLevel    |-> IF Truthy(business.priceLevel)
                                 THEN business.priceLevel ELSE Null,
               priceRange    |-> IF Truthy(business.priceRange)
                                 THEN business.priceRange ELSE Null,
               googleMapsUrl |-> validateUrl(business.googleMapsUrl),
               latitude      |-> parseCoordinates(business.googleMapsUrl).latitude,
               longitude     |-> parseCoordinates(business.googleMapsUrl).longitude,
               emails        |-> ValidEmails(business.emails),
               emailSource   |-> IF business.emailSource = "" THEN "not_found"
                                 ELSE business.emailSource ] ]

RecInit ==
    /\ WalkIdle
    /\ EnrichIdle
    /\ RunIdle
    /\ HoursIdle
    /\ blacklistReadable \in BOOLEAN
    /\ recPc = "raw"
    /\ recRaw \in RawChoices
    /\ recValidated = Null
    /\ filterArg = Null
    /\ verdict = Null
    /\ revalidated = Null

\* validateBusinessData(recRaw) returns.
Validate ==
    /\ recPc = "raw"
    /\ ~ValidationThrows(recRaw, blacklistReadable)
    /\ recValidated' = validateBusinessData(recRaw)
    /\ recPc' = "validated"
    /\ UNCHANGED << recRaw, filterArg, verdict, revalidated >>
    /\ UNCHANGED << walkVars, enrichVars, runVars, hoursVars >>

\* validateBusinessData(recRaw) throws: the blacklist cannot be read.
ValidateThrows ==
    /\ recPc = "raw"
    /\ ValidationThrows(recRaw, blacklistReadable)
    /\ recPc' = "threw"
    /\ UNCHANGED << recRaw, recValidated, filterArg, verdict, revalidated >>
    /\ UNCHANGED << walkVars, enrichVars, runVars, hoursVars >>

\* meetsFilterCriteria(recValidated, filters)
Filter ==
    /\ recPc = "validated"
    /\ \E f \in FilterArgs :
          /\ filterArg' = f
          /\ verdict' = meetsFilterCriteria(recValidated, f)
    /\ recPc' = "filtered"
    /\ UNCHANGED << recRaw, recValidated, revalidated >>
    /\ UNCHANGED << walkVars, enrichVars, runVars, hoursVars >>

\* validateBusinessData(recValidated)
ValidateAgain ==
    /\ recPc = "validated"
    /\ revalidated' = Revalidate(recValidated)
    /\ recPc' = "revalidated"
    /\ UNCHANGED << recRaw, recValidated, filterArg, verdict >>
    /\ UNCHANGED << walkVars, enrichVars, runVars, hoursVars >>

RecNext ==
    \/ Validate
    \/ ValidateThrows
    \/ Filter
    \/ ValidateAgain

RecSpec == RecInit /\ [][RecNext]_vars

\* ------------------------------------------------------------------------
\* Listings whose URL carries coordinates, through the validator
\* ------------------------------------------------------------------------
\* Decimal texts tried as latitude and as longitude; "5" has no fraction
\* and does not match.
LatTexts ==
    { <<"4", "0", ".", "7">>, <<"-", "9", "0", ".", "0">>,
      <<"9", "0", ".", "5">>, <<"0", ".", "0">> }
LngTexts ==
    { <<"-", "7", "3", ".", "9">>, <<"1", "8", "0", ".", "0", "0">>,
      <<"-", "1", "8", "0", ".", "5">>, <<"5">> }

\* The URLs tried: a listing URL with or without an @lat,lng segment, and
\* with or without a !3dLAT!4dLNG part in its data segment.
UrlChoices ==
    { <<MapsBase, "/place/a", "/">> \o atPart \o <<"/", "data=">> \o bangPart :
        atPart \in { <<>> } \cup
                   { <<"@">> \o lat \o <<",">> \o lng \o <<",", "1", "7", "z">> :
                       lat \in LatTexts, lng \in LngTexts },
        bangPart \in { <<>> } \cup
                     { <<"!", "3", "d">> \o lat \o <<"!", "4", "d">> \o lng :
                         lat \in LatTexts, lng \in LngTexts } }

CoordInit ==
    /\ WalkIdle
    /\ EnrichIdle
    /\ RunIdle
    /\ HoursIdle
    /\ blacklistReadable \in BOOLEAN
    /\ recPc = "raw"
    /\ recRaw \in { [ Raw[1] EXCEPT !.googleMapsUrl = url ] : url \in UrlChoices }
    /\ recValidated = Null
    /\ filterArg = Null
    /\ verdict = Null
    /\ revalidated = Null

CoordSpec == CoordInit /\ [][RecNext]_vars

\* The mailto addresses tried for a detail view: every local part at every
\* domain, and one the email pattern rejects.
MailtoChoices ==
    { <<l, "@", d>> : l \in LocalParts, d \in MailDomains }
    \cup { <<"joe", "@", "localhost">> }

\* The raw records of a detail view with a mailto link, and of one without.
MailRawChoices ==
    { [ Raw[1] EXCEPT !.emails = <<e>>, !.emailSource = "google_profile" ] :
        e \in MailtoChoices }
    \cup { [ Raw[1] EXCEPT !.emails = <<>>, !.emailSource = "not_found" ] }

MailInit ==
    /\ WalkIdle
    /\ EnrichIdle
    /\ RunIdle
    /\ HoursIdle
    /\ blacklistReadable \in BOOLEAN
    /\ recPc = "raw"
    /\ recRaw \in MailRawChoices
    /\ recValidated = Null
    /\ filterArg = Null
    /\ verdict = Null
    /\ revalidated = Null

MailSpec == MailInit /\ [][RecNext]_vars

\* ------------------------------------------------------------------------
\* Email enrichment (batchFindEmails, findEmailOnWebsite)
\* ------------------------------------------------------------------------
MaxRecords == 3       \* most businesses given to batchFindEmails
MaxConcurrency == 2   \* largest concurrency limit tried

ShopUrl == <<"http://shop.example", "/">>
CafeUrl == <<"https://cafe.example", "/">>

\* The websites: the addresses the email pattern matches in the HTML of the
\* homepage, and in the HTML of each contact-like page the homepage links
\* to (findContactPages, duplicates removed), in the order of the links.
SiteOf(website) ==
    IF website = ShopUrl
    THEN [ home  |-> << <<"noreply", "@", "shop.example">>,
                        <<"INFO", "@", "Shop.Example">> >>,
           links |-> << << <<"joe", "@", "shop.example">>,
                           <<"info", "@", "shop.example">> >>,
                        << <<"joe", "@", "cafe.example">> >>,
                        << <<"info", "@", "cafe.example">> >> >> ]
    ELSE [ home  |-> <<>>,
           links |-> << << <<"info", "@", "example.com">> >> >> ]

\* [...new Set(validEmails)] and allEmails.add: the addresses of emails
\* that are not yet in all, appended to all in their order.
RECURSIVE AddAll(_, _)
AddAll(all, emails) ==
    IF emails = <<>> THEN all
    ELSE IF \E k \in 1..Len(all) : all[k] = Head(emails)
         THEN AddAll(all, Tail(emails))
         ELSE AddAll(Append(all, Head(emails)), Tail(emails))

\* An extraction that keeps every match of the pattern.
extractEmailsFromHTMLUnvalidated(matches) == AddAll(<<>>, matches)

\* extractEmailsFromHTML: the matches validated, nulls and duplicates
\* removed.
extractEmailsFromHTML(matches) == AddAll(<<>>, ValidEmails(matches))

\* extractEmailsFromHTML throws when it has a match to validate and the
\* blacklist file cannot be read.
ExtractThrows(matches, readable) == matches # <<>> /\ ~readable

\* Every contact link, without the slice.
ContactLinksAll(website) == SiteOf(website).links

\* contactLinks.slice(0, 2)
ContactLinks(website) == SubSeq(SiteOf(website).links, 1,
                                IF Len(SiteOf(website).links) < 2
                                THEN Len(SiteOf(website).links) ELSE 2)

\* The listings of the businesses array, by position.
PlaceOf(k) == << "/place/a", "/place/b", "/place/c", "/place/d", "/place/e" >>[k]

\* The kinds of validated record tried: a website and a mailto email, a
\* mailto email and no website, a website and no email.
RecordKinds ==
    { Validated[1],
      validateBusinessData([ Raw[1] EXCEPT !.website = Null ]),
      validateBusinessData([ Raw[1] EXCEPT
                               !.website = <<"https://cafe.example">>,
                               !.emails = <<>>,
                               !.emailSource = "not_found" ]) }

\* The arrays tried: one to MaxRecords records, each of its own listing.
BatchChoices ==
    { [ k \in 1..Len(kinds) |->
          [ kinds[k] EXCEPT !.googleMapsUrl = <<MapsBase, PlaceOf(k)>> ] ] :
      kinds \in SeqsUpTo(RecordKinds, MaxRecords) \ {<<>>} }

\* A limiter that never gets a slot back from a task that returned.
ActiveTasksNeverFreed == { k \in DOMAIN taskPc : taskPc[k] # "queued" }

\* The tasks the limiter has started and that have not returned.
ActiveTasks == { k \in DOMAIN taskPc : taskPc[k] \notin {"queued", "done"} }

\* A limiter that starts every task at once.
CanStartUnlimited(active, limit) == TRUE

\* pLimit(concurrency): a queued task starts when fewer than concurrency
\* tasks are running.
CanStart(active, limit) == active < limit

\* A contact page failure that ends the task without a result.
AfterContactFailureAbort(emails) == [ pc |-> "finally", emails |-> <<>> ]

\* catch (error) { /* continue */ } inside the loop over the contact links
AfterContactFailure(emails) == [ pc |-> "contacts", emails |-> emails ]

\* A finally block that leaves the context open.
ContextAfterFinallyLeak(open) == open

\* finally: page.close(), context.close()
ContextAfterFinally(open) == FALSE

\* A task that writes to the first record of the array.
WriteTargetFirst(k) == 1

\* Each task writes to the business it was created for.
WriteTarget(k) == k

\* What findEmailOnWebsite returns: null, or the emails and their source.
NullResult == [ isNull |-> TRUE, emails |-> <<>>, source |-> "" ]
WebsiteResult(emailArray) ==
    [ isNull |-> FALSE, emails |-> emailArray, source |-> "website" ]

\* A task that leaves the record as it is when nothing was found.
WrittenKeepOnMiss(business, res) ==
    IF ~res.isNull
    THEN [ business EXCEPT !.emails = res.emails, !.emailSource = res.source ]
    ELSE business

\* if (result && result.emails) {...} else {...}
Written(business, res) ==
    IF ~res.isNull
    THEN [ business EXCEPT !.emails = res.emails, !.emailSource = res.source ]
    ELSE [ business EXCEPT !.emails = <<>>, !.emailSource = "not_found" ]

EnrichInit ==
    /\ WalkIdle
    /\ RecIdle
    /\ RunIdle
    /\ HoursIdle
    /\ blacklistReadable \in BOOLEAN
    /\ batchPc = "running"
    /\ batch \in BatchChoices
    /\ input = batch
    /\ concurrency \in 1..MaxConcurrency
    /\ taskPc = [ k \in 1..Len(batch) |-> "queued" ]
    /\ context = [ k \in 1..Len(batch) |-> FALSE ]
    /\ page = [ k \in 1..Len(batch) |-> FALSE ]
    /\ allEmails = [ k \in 1..Len(batch) |-> <<>> ]
    /\ linkIdx = [ k \in 1..Len(batch) |-> 0 ]
    /\ taskResult = [ k \in 1..Len(batch) |-> NullResult ]
    /\ loaded = [ k \in 1..Len(batch) |-> {} ]
    /\ exitPath = [ k \in 1..Len(batch) |-> "none" ]
    /\ writers = [ k \in 1..Len(batch) |-> {} ]
    /\ visits = [ k \in 1..Len(batch) |-> <<>> ]

\* The limiter starts the first queued task.
StartTask(k) ==
    /\ batchPc = "running"
    /\ taskPc[k] = "queued"
    /\ \A j \in 1..(k - 1) : taskPc[j] # "queued"
    /\ CanStart(Cardinality(ActiveTasks), concurrency)
    /\ taskPc' = [ taskPc EXCEPT ![k] = "run" ]
    /\ UNCHANGED << batchPc, batch, concurrency, context, page, allEmails,
                    linkIdx, taskResult, input, loaded, exitPath, writers >>
    /\ UNCHANGED visits
    /\ UNCHANGED << walkVars, recVars, runVars, hoursVars >>

\* if (!business.website) return business;
NoWebsite(k) ==
    /\ taskPc[k] = "run"
    /\ ~Truthy(batch[k].website)
    /\ taskPc' = [ taskPc EXCEPT ![k] = "done" ]
    /\ exitPath' = [ exitPath EXCEPT ![k] = "no_website" ]
    /\ UNCHANGED << batchPc, batch, concurrency, context, page, allEmails,
                    linkIdx, taskResult, input, loaded, writers >>
    /\ UNCHANGED visits
    /\ UNCHANGED << walkVars, recVars, runVars, hoursVars >>

\* context = await browser.newContext(...): it opens, or it throws.
NewContext(k) ==
    /\ taskPc[k] = "run"
    /\ Truthy(batch[k].website)
    /\ \E ok \in BOOLEAN :
          /\ context' = [ context EXCEPT ![k] = ok ]
          /\ taskPc' = [ taskPc EXCEPT
                           ![k] = IF ok THEN "context" ELSE "finally" ]
          /\ exitPath' = [ exitPath EXCEPT
                             ![k] = IF ok THEN @ ELSE "context_failed" ]
    /\ UNCHANGED << batchPc, batch, concurrency, page, allEmails,
                    linkIdx, taskResult, input, loaded, writers >>
    /\ UNCHANGED visits
    /\ UNCHANGED << walkVars, recVars, runVars, hoursVars >>

\* page = await context.newPage(): it opens, or it throws.
NewPage(k) ==
    /\ taskPc[k] = "context"
    /\ \E ok \in BOOLEAN :
          /\ page' = [ page EXCEPT ![k] = ok ]
          /\ taskPc' = [ taskPc EXCEPT ![k] = IF ok THEN "page" ELSE "finally" ]
          /\ exitPath' = [ exitPath EXCEPT
                             ![k] = IF ok THEN @ ELSE "page_failed" ]
    /\ UNCHANGED << batchPc, batch, concurrency, context, allEmails,
                    linkIdx, taskResult, input, loaded, writers >>
    /\ UNCHANGED visits
    /\ UNCHANGED << walkVars, recVars, runVars, hoursVars >>

\* page.goto(websiteUrl), extractEmailsFromHTML, findContactPages: the
\* homepage's emails are collected, or the navigation (or the extraction)
\* throws and the outer catch returns null.
GotoHome(k) ==
    /\ taskPc[k] = "page"
    /\ LET home == SiteOf(batch[k].website).home IN
       \E ok \in BOOLEAN :
          LET fine == ok /\ ~ExtractThrows(home, blacklistReadable) IN
          /\ allEmails' = [ allEmails EXCEPT
                              ![k] = IF fine
                                     THEN AddAll(<<>>, extractEmailsFromHTML(home))
                                     ELSE <<>> ]
          /\ loaded' = [ loaded EXCEPT
                           ![k] = IF fine THEN {0} ELSE {} ]
          /\ taskPc' = [ taskPc EXCEPT
                           ![k] = IF fine THEN "contacts" ELSE "finally" ]
          /\ exitPath' = [ exitPath EXCEPT
                             ![k] = IF fine THEN @ ELSE "home_failed" ]
    /\ UNCHANGED << batchPc, batch, concurrency, context, page,
                    linkIdx, taskResult, input, writers >>
    /\ visits' = [ visits EXCEPT ![k] = Append(@, 0) ]
    /\ UNCHANGED << walkVars, recVars, runVars, hoursVars >>

\* One pass of the loop over the first two contact links: the page's
\* emails are added, or the navigation (or the extraction) throws and the
\* inner catch goes on with the next link.
ContactPage(k) ==
    /\ taskPc[k] = "contacts"
    /\ linkIdx[k] < Len(ContactLinks(batch[k].website))
    /\ LET matches == ContactLinks(batch[k].website)[linkIdx[k] + 1] IN
       \E ok \in BOOLEAN :
          LET fine   == ok /\ ~ExtractThrows(matches, blacklistReadable)
              failed == AfterContactFailure(allEmails[k])
          IN
          /\ allEmails' = [ allEmails EXCEPT
                              ![k] = IF fine
                                     THEN AddAll(@, extractEmailsFromHTML(matches))
                                     ELSE failed.emails ]
          /\ loaded' = [ loaded EXCEPT
                           ![k] = IF fine THEN @ \cup {linkIdx[k] + 1} ELSE @ ]
          /\ taskPc' = [ taskPc EXCEPT
                           ![k] = IF fine THEN "contacts" ELSE failed.pc ]
    /\ linkIdx' = [ linkIdx EXCEPT ![k] = @ + 1 ]
    /\ UNCHANGED << batchPc, batch, concurrency, context, page,
                    taskResult, input, exitPath, writers >>
    /\ visits' = [ visits EXCEPT ![k] = Append(@, linkIdx[k] + 1) ]
    /\ UNCHANGED << walkVars, recVars, runVars, hoursVars >>

\* After the loop: return { emails, source: 'website' } or null.
ReturnEmails(k) ==
    /\ taskPc[k] = "contacts"
    /\ linkIdx[k] >= Len(ContactLinks(batch[k].website))
    /\ taskResult' = [ taskResult EXCEPT
                         ![k] = IF allEmails[k] # <<>>
                                THEN WebsiteResult(allEmails[k])
                                ELSE NullResult ]
    /\ taskPc' = [ taskPc EXCEPT ![k] = "finally" ]
    /\ exitPath' = [ exitPath EXCEPT
                       ![k] = IF allEmails[k] # <<>> THEN "found"
                              ELSE "not_found" ]
    /\ UNCHANGED << batchPc, batch, concurrency, context, page, allEmails,
                    linkIdx, input, loaded, writers >>
    /\ UNCHANGED visits
    /\ UNCHANGED << walkVars, recVars, runVars, hoursVars >>

\* finally { page.close(); context.close(); }
Cleanup(k) ==
    /\ taskPc[k] = "finally"
    /\ page' = [ page EXCEPT ![k] = FALSE ]
    /\ context' = [ context EXCEPT ![k] = ContextAfterFinally(@) ]
    /\ taskPc' = [ taskPc EXCEPT ![k] = "write" ]
    /\ UNCHANGED << batchPc, batch, concurrency, allEmails,
                    linkIdx, taskResult, input, loaded, exitPath, writers >>
    /\ UNCHANGED visits
    /\ UNCHANGED << walkVars, recVars, runVars, hoursVars >>

\* The task writes emails and emailSource to its business and returns.
WriteResult(k) ==
    /\ taskPc[k] = "write"
    /\ LET t == WriteTarget(k) IN
       /\ batch' = [ batch EXCEPT ![t] = Written(@, taskResult[k]) ]
       /\ writers' = [ writers EXCEPT ![t] = @ \cup {k} ]
    /\ taskPc' = [ taskPc EXCEPT ![k] = "done" ]
    /\ UNCHANGED << batchPc, concurrency, context, page, allEmails,
                    linkIdx, taskResult, input, loaded, exitPath >>
    /\ UNCHANGED visits
    /\ UNCHANGED << walkVars, recVars, runVars, hoursVars >>

\* A wait that ends when the first task has returned.
PromiseAny(pcs) == \E k \in DOMAIN pcs : pcs[k] = "done"

\* Promise.all(promises) resolves when every task has returned (no task
\* rejects).
PromiseAll(pcs) == \A k \in DOMAIN pcs : pcs[k] = "done"

\* await Promise.all(promises); return results;
BatchReturn ==
    /\ batchPc = "running"
    /\ PromiseAll(taskPc)
    /\ batchPc' = "returned"
    /\ UNCHANGED << batch, concurrency, taskPc, context, page, allEmails,
                    linkIdx, taskResult, input, loaded, exitPath, writers >>
    /\ UNCHANGED visits
    /\ UNCHANGED << walkVars, recVars, runVars, hoursVars >>

EnrichNext ==
    \/ \E k \in DOMAIN taskPc : StartTask(k)
    \/ \E k \in DOMAIN taskPc : NoWebsite(k)
    \/ \E k \in DOMAIN taskPc : NewContext(k)
    \/ \E k \in DOMAIN taskPc : NewPage(k)
    \/ \E k \in DOMAIN taskPc : GotoHome(k)
    \/ \E k \in DOMAIN taskPc : ContactPage(k)
    \/ \E k \in DOMAIN taskPc : ReturnEmails(k)
    \/ \E k \in DOMAIN taskPc : Cleanup(k)
    \/ \E k \in DOMAIN taskPc : WriteResult(k)
    \/ BatchReturn

EnrichSpec == EnrichInit /\ [][EnrichNext]_vars

\* ------------------------------------------------------------------------
\* Enrichment under fair scheduling: every awaited call returns or throws
\* (each navigation has a timeout), so a step that can be taken is taken.
\* ------------------------------------------------------------------------
MaxStallRecords == 3  \* most businesses given to batchFindEmails here

\* The kinds of record tried: a website with contact links, no website.
StallKinds == { r \in RecordKinds : r.website # CafeUrl }

StallBatchChoices ==
    { [ k \in 1..Len(kinds) |->
          [ kinds[k] EXCEPT !.googleMapsUrl = <<MapsBase, PlaceOf(k)>> ] ] :
      kinds \in SeqsUpTo(StallKinds, MaxStallRecords) \ {<<>>} }

StallInit ==
    /\ WalkIdle
    /\ RecIdle
    /\ RunIdle
    /\ HoursIdle
    /\ blacklistReadable = TRUE
    /\ batchPc = "running"
    /\ batch \in StallBatchChoices
    /\ input = batch
    /\ concurrency \in 1..MaxConcurrency
    /\ taskPc = [ k \in 1..Len(batch) |-> "queued" ]
    /\ context = [ k \in 1..Len(batch) |-> FALSE ]
    /\ page = [ k \in 1..Len(batch) |-> FALSE ]
    /\ allEmails = [ k \in 1..Len(batch) |-> <<>> ]
    /\ linkIdx = [ k \in 1..Len(batch) |-> 0 ]
    /\ taskResult = [ k \in 1..Len(batch) |-> NullResult ]
    /\ loaded = [ k \in 1..Len(batch) |-> {} ]
    /\ exitPath = [ k \in 1..Len(batch) |-> "none" ]
    /\ writers = [ k \in 1..Len(batch) |-> {} ]
    /\ visits = [ k \in 1..Len(batch) |-> <<>> ]

FairEnrichSpec == StallInit /\ [][EnrichNext]_vars /\ WF_vars(EnrichNext)

\* ------------------------------------------------------------------------
\* A run: main, scrapeGoogleMaps (main.js, scraper.js)
\* ------------------------------------------------------------------------
MaxRunResults == 2    \* largest maxResults tried in a run

\* The selectors waitForSearchResults waits for, in their order.
PanelSelectors == 4

\* batchFindEmails(businesses, browser, 5)
EnrichConcurrency == 5

\* A wait that goes on to the walk whether or not a selector appeared.
WaitOutcomeIgnored(found) == "walk"

\* waitForSearchResults: returns when a selector appeared, else throws.
WaitOutcome(found) == IF found THEN "walk" ELSE "catch"

\* page.close() and browser.close() of the finally block: what was opened
\* is closed, what was never opened stays null.
Closed(handle) == IF handle = "open" THEN "closed" ELSE handle

RunInit ==
    /\ WalkIdle
    /\ RecIdle
    /\ EnrichIdle
    /\ HoursIdle
    /\ blacklistReadable \in BOOLEAN
    /\ runPc = "main"
    /\ browser = "none"
    /\ listingPage = "none"
    /\ waited = <<>>
    /\ failure = "none"
    /\ returned = <<>>
    /\ dataset = <<>>
    /\ exitError = "none"
    /\ calls = 0

\* main: if (!keyword || !location) throw ...; else scrapeGoogleMaps(...)
MainInput ==
    /\ runPc = "main"
    /\ \E keyword \in BOOLEAN, location \in BOOLEAN :
          IF keyword /\ location
          THEN /\ runPc' = "launch"
               /\ calls' = calls + 1
               /\ UNCHANGED failure
          ELSE /\ runPc' = "mainCatch"
               /\ failure' = "input"
               /\ UNCHANGED calls
    /\ UNCHANGED << browser, listingPage, waited, returned, dataset,
                    exitError >>
    /\ UNCHANGED << walkVars, recVars, enrichVars, hoursVars >>

\* browser = await launchBrowser(proxyConfiguration)
Launch ==
    /\ runPc = "launch"
    /\ \E ok \in BOOLEAN :
          /\ browser' = IF ok THEN "open" ELSE "none"
          /\ runPc' = IF ok THEN "newPage" ELSE "catch"
          /\ failure' = IF ok THEN failure ELSE "launch"
    /\ UNCHANGED << listingPage, waited, returned, dataset, exitError,
                    calls >>
    /\ UNCHANGED << walkVars, recVars, enrichVars, hoursVars >>

\* page = await browser.newPage(); await setupPage(page);
OpenListingPage ==
    /\ runPc = "newPage"
    /\ \E outcome \in {"ok", "newPage", "setupPage"} :
          /\ listingPage' = IF outcome = "newPage" THEN "none" ELSE "open"
          /\ runPc' = IF outcome = "ok" THEN "goto" ELSE "catch"
          /\ failure' = IF outcome = "ok" THEN failure ELSE outcome
    /\ UNCHANGED << browser, waited, returned, dataset, exitError, calls >>
    /\ UNCHANGED << walkVars, recVars, enrichVars, hoursVars >>

\* page.goto(searchUrl), page.waitForTimeout(5000), dismissConsent(page)
\* (which catches its errors).
Navigate ==
    /\ runPc = "goto"
    /\ \E ok \in BOOLEAN :
          /\ runPc' = IF ok THEN "wait" ELSE "catch"
          /\ failure' = IF ok THEN failure ELSE "goto"
    /\ UNCHANGED << browser, listingPage, waited, returned, dataset,
                    exitError, calls >>
    /\ UNCHANGED << walkVars, recVars, enrichVars, hoursVars >>

\* One pass of the loop of waitForSearchResults: the selector appears
\* within its timeout (found, break) or the next one is tried; after the
\* last one the function throws.
WaitForSelector ==
    /\ runPc = "wait"
    /\ Len(waited) < PanelSelectors
    /\ \E appears \in BOOLEAN :
          LET over == appears \/ Len(waited) + 1 = PanelSelectors IN
          /\ runPc' = IF over THEN WaitOutcome(appears) ELSE "wait"
          /\ failure' = IF over /\ ~appears THEN "panel" ELSE failure
    /\ waited' = Append(waited, Len(waited) + 1)
    /\ UNCHANGED << browser, listingPage, returned, dataset, exitError,
                    calls >>
    /\ UNCHANGED << walkVars, recVars, enrichVars, hoursVars >>

\* extractBusinessListings has ended: its parameters and locals are gone.
WalkLocalsGone ==
    /\ pc' = "idle"
    /\ maxResults' = 0
    /\ filters' = NoFilters
    /\ feedLimit' = 0
    /\ businessLinks' = <<>>
    /\ i' = 0
    /\ previousCount' = 0
    /\ noNewResultsCount' = 0
    /\ businesses' = <<>>
    /\ seenUrls' = {}
    /\ lastOutcome' = "none"
    /\ origin' = <<>>
    /\ clicks' = <<>>
    /\ visible' = <<>>
    /\ rerenders' = 0
    /\ shrunk' = FALSE
    /\ UNCHANGED blacklistReadable

\* extractBusinessListings(page, maxResults, filters, ...) is called.
WalkStart ==
    /\ runPc = "walk"
    /\ pc = "idle"
    /\ pc' = "while"
    /\ maxResults' \in 0..MaxRunResults
    /\ feedLimit' = MaxLinks
    /\ UNCHANGED << filters, blacklistReadable, businessLinks, i,
                    previousCount, noNewResultsCount, businesses, seenUrls,
                    lastOutcome, origin, clicks, visible, rerenders, shrunk >>
    /\ UNCHANGED << recVars, enrichVars, runVars, hoursVars >>

\* extractBusinessListings returns businesses (its locals are gone);
\* if (findEmails && businesses.length > 0) batchFindEmails is called.
WalkReturns ==
    /\ runPc = "walk"
    /\ pc = "done"
    /\ returned' = businesses
    /\ \E findEmails \in BOOLEAN :
          runPc' = IF findEmails /\ Len(businesses) > 0 THEN "enrich"
                   ELSE "finally"
    /\ WalkLocalsGone
    /\ UNCHANGED << browser, listingPage, waited, failure, dataset,
                    exitError, calls >>
    /\ UNCHANGED << recVars, enrichVars, hoursVars >>

\* extractBusinessListings throws.
WalkThrows ==
    /\ runPc = "walk"
    /\ pc = "error"
    /\ failure' = "walk"
    /\ runPc' = "catch"
    /\ WalkLocalsGone
    /\ UNCHANGED << browser, listingPage, waited, returned, dataset,
                    exitError, calls >>
    /\ UNCHANGED << recVars, enrichVars, hoursVars >>

\* batchFindEmails: p-limit is imported (or the import throws), one task
\* is made for each business.
EnrichStart ==
    /\ runPc = "enrich"
    /\ batchPc = "idle"
    /\ \E ok \in BOOLEAN :
          IF ok
          THEN /\ batchPc' = "running"
               /\ batch' = returned
               /\ input' = returned
               /\ concurrency' = EnrichConcurrency
               /\ taskPc' = [ k \in 1..Len(returned) |-> "queued" ]
               /\ context' = [ k \in 1..Len(returned) |-> FALSE ]
               /\ page' = [ k \in 1..Len(returned) |-> FALSE ]
               /\ allEmails' = [ k \in 1..Len(returned) |-> <<>> ]
               /\ linkIdx' = [ k \in 1..Len(returned) |-> 0 ]
               /\ taskResult' = [ k \in 1..Len(returned) |-> NullResult ]
               /\ loaded' = [ k \in 1..Len(returned) |-> {} ]
               /\ exitPath' = [ k \in 1..Len(returned) |-> "none" ]
               /\ writers' = [ k \in 1..Len(returned) |-> {} ]
               /\ visits' = [ k \in 1..Len(returned) |-> <<>> ]
               /\ UNCHANGED runVars
          ELSE /\ failure' = "enrich"
               /\ runPc' = "catch"
               /\ UNCHANGED << browser, listingPage, waited, returned,
                               dataset, exitError, calls >>
               /\ UNCHANGED enrichVars
    /\ UNCHANGED << walkVars, recVars, hoursVars >>

\* batchFindEmails returns: the businesses array with what the tasks
\* wrote to it.
EnrichReturns ==
    /\ runPc = "enrich"
    /\ batchPc = "returned"
    /\ returned' = batch
    /\ runPc' = "finally"
    /\ UNCHANGED << browser, listingPage, waited, failure, dataset,
                    exitError, calls >>
    /\ UNCHANGED << walkVars, recVars, enrichVars, hoursVars >>

\* catch (error) { console.error(...); throw error; }
Catch ==
    /\ runPc = "catch"
    /\ runPc' = "finally"
    /\ UNCHANGED << browser, listingPage, waited, failure, returned,
                    dataset, exitError, calls >>
    /\ UNCHANGED << walkVars, recVars, enrichVars, hoursVars >>

\* finally: if (page) await page.close().catch(() => {});
ClosePage ==
    /\ runPc = "finally"
    /\ listingPage' = Closed(listingPage)
    /\ runPc' = "closeBrowser"
    /\ UNCHANGED << browser, waited, failure, returned, dataset, exitError,
                    calls >>
    /\ UNCHANGED << walkVars, recVars, enrichVars, hoursVars >>

\* finally: if (browser) await browser.close().catch(() => {}); then the
\* result is returned to main or the error is thrown to it.
CloseBrowser ==
    /\ runPc = "closeBrowser"
    /\ browser' = Closed(browser)
    /\ runPc' = IF failure = "none" THEN "push" ELSE "mainCatch"
    /\ UNCHANGED << listingPage, waited, failure, returned, dataset,
                    exitError, calls >>
    /\ UNCHANGED << walkVars, recVars, enrichVars, hoursVars >>

\* main: if (businesses.length > 0) await Actor.pushData(businesses);
PushData ==
    /\ runPc = "push"
    /\ IF Len(returned) > 0
       THEN \E ok \in BOOLEAN :
               /\ dataset' = IF ok THEN returned ELSE dataset
               /\ failure' = IF ok THEN failure ELSE "push"
               /\ runPc' = IF ok THEN "exit" ELSE "mainCatch"
       ELSE /\ runPc' = "exit"
            /\ UNCHANGED << dataset, failure >>
    /\ UNCHANGED << browser, listingPage, waited, returned, exitError,
                    calls >>
    /\ UNCHANGED << walkVars, recVars, enrichVars, hoursVars >>

\* main: catch (error) { console.error(...); throw error; } finally
\* { await Actor.exit(); }
MainCatch ==
    /\ runPc = "mainCatch"
    /\ exitError' = failure
    /\ runPc' = "exit"
    /\ UNCHANGED << browser, listingPage, waited, failure, returned,
                    dataset, calls >>
    /\ UNCHANGED << walkVars, recVars, enrichVars, hoursVars >>

RunNext ==
    \/ MainInput
    \/ Launch
    \/ OpenListingPage
    \/ Navigate
    \/ WaitForSelector
    \/ WalkStart
    \/ Next
    \/ WalkReturns
    \/ WalkThrows
    \/ EnrichStart
    \/ EnrichNext
    \/ EnrichReturns
    \/ Catch
    \/ ClosePage
    \/ CloseBrowser
    \/ PushData
    \/ MainCatch

RunSpec == RunInit /\ [][RunNext]_vars

\* ------------------------------------------------------------------------
\* Business hours (scraper.js extractHoursData, validation.js
\* validateBusinessHours).  An aria-label is written as the day word, a
\* comma, the characters of the time range, a comma, "Copy open hours".
\* ------------------------------------------------------------------------
MaxLabels == 3        \* most "Copy open hours" buttons on a detail view

ValidDays == {"Monday", "Tuesday", "Wednesday", "Thursday", "Friday",
              "Saturday", "Sunday"}

\* The weekday a word names under the pattern's i flag, "" when none.
WeekdayOf(word) ==
    IF word \in ValidDays THEN word
    ELSE CASE word = "monday"    -> "Monday"
           [] word = "tuesday"   -> "Tuesday"
           [] word = "wednesday" -> "Wednesday"
           [] word = "thursday"  -> "Thursday"
           [] word = "friday"    -> "Friday"
           [] word = "saturday"  -> "Saturday"
           [] word = "sunday"    -> "Sunday"
           [] OTHER              -> ""

NoHoursMatch == [ ok |-> FALSE, day |-> "", timeRange |-> <<>> ]

\* ariaLabel.match(/^(Monday|...|Sunday),\s*(.+?),\s*Copy open hours/i):
\* day is the word as the label has it, timeRange is match[2].trim().
HoursLabelMatch(label) ==
    IF label = Null \/ Len(label) < 5 THEN NoHoursMatch
    ELSE IF \/ WeekdayOf(label[1]) = ""
            \/ label[2] # ","
            \/ label[Len(label) - 1] # ","
            \/ label[Len(label)] # "Copy open hours"
         THEN NoHoursMatch
    ELSE [ ok |-> TRUE, day |-> label[1],
           timeRange |-> Trim(SubSeq(label, 3, Len(label) - 2)) ]

\* if (!seenDays.has(day)) { hours[day] = timeRange; seenDays.add(day); }
AddHours(acc, m) ==
    IF m.ok /\ m.day \notin acc.seenDays
    THEN [ hours    |-> Append(acc.hours, [ day |-> m.day, time |-> m.timeRange ]),
           seenDays |-> acc.seenDays \cup {m.day} ]
    ELSE acc

\* buttons.forEach(...)
RECURSIVE HoursOf(_, _)
HoursOf(acc, labels) ==
    IF labels = <<>> THEN acc
    ELSE HoursOf(AddHours(acc, HoursLabelMatch(Head(labels))), Tail(labels))

\* null, or an object: its keys in insertion order with their values.
NullHours == [ isNull |-> TRUE, entries |-> <<>> ]
HoursObject(entries) ==
    IF entries = <<>> THEN NullHours
    ELSE [ isNull |-> FALSE, entries |-> entries ]

\* extractHoursData once the hours button was clicked: null when no label
\* gave an entry.
extractHoursData(labels) ==
    HoursObject(HoursOf([ hours |-> <<>>, seenDays |-> {} ], labels).hours)

\* The entries validateBusinessHours keeps, their time trimmed.
RECURSIVE ValidHourEntries(_)
ValidHourEntries(entries) ==
    IF entries = <<>> THEN <<>>
    ELSE (IF Head(entries).day \in ValidDays /\ Trim(Head(entries).time) # <<>>
          THEN << [ day |-> Head(entries).day, time |-> Trim(Head(entries).time) ] >>
          ELSE <<>>) \o ValidHourEntries(Tail(entries))

\* validateBusinessHours: null for null or when no entry is kept.
validateBusinessHours(hours) ==
    IF hours.isNull THEN NullHours ELSE HoursObject(ValidHourEntries(hours.entries))

\* The aria-labels tried.
LabelChoices ==
    { <<day, ",">> \o time \o <<",", "Copy open hours">> :
        day \in {"Monday", "monday", "Tuesday"},
        time \in { <<"9", " ", "t", "o", " ", "5">>, <<" ", "1", "1", " ", "t", "o", " ", "2">> } }
    \cup { Null, <<"Holiday", ",", "9", ",", "Copy open hours">> }

HoursInit ==
    /\ WalkIdle
    /\ RecIdle
    /\ EnrichIdle
    /\ RunIdle
    /\ blacklistReadable = TRUE
    /\ hoursPc = "labels"
    /\ ariaLabels \in SeqsUpTo(LabelChoices, MaxLabels)
    /\ hoursData = NullHours
    /\ validatedHours = NullHours

\* extractHoursData: the hours button is found and clicked, the labels are
\* read.
ExtractHours ==
    /\ hoursPc = "labels"
    /\ hoursData' = extractHoursData(ariaLabels)
    /\ hoursPc' = "extracted"
    /\ UNCHANGED << ariaLabels, validatedHours >>
    /\ UNCHANGED << walkVars, recVars, enrichVars, runVars >>

\* extractHoursData: no hours button, or the click throws: null.
ExtractHoursFails ==
    /\ hoursPc = "labels"
    /\ hoursData' = NullHours
    /\ hoursPc' = "extracted"
    /\ UNCHANGED << ariaLabels, validatedHours >>
    /\ UNCHANGED << walkVars, recVars, enrichVars, runVars >>

\* businessHours: validateBusinessHours(rawData.businessHours)
ValidateHours ==
    /\ hoursPc = "extracted"
    /\ validatedHours' = validateBusinessHours(hoursData)
    /\ hoursPc' = "validated"
    /\ UNCHANGED << ariaLabels, hoursData >>
    /\ UNCHANGED << walkVars, recVars, enrichVars, runVars >>

HoursNext ==
    \/ ExtractHours
    \/ ExtractHoursFails
    \/ ValidateHours

HoursSpec == HoursInit /\ [][HoursNext]_vars

\* ------------------------------------------------------------------------
\* Properties
\* ------------------------------------------------------------------------
\* The card of the last pass of the for loop's body.
LastCard == businessLinks[i]

InLoopAfterCard == pc = "for" /\ lastOutcome # "none"

\* C1: in every state of the walk, and when it has returned, the result has
\* at most maxResults records.
C1_ResultWithinCap == Len(businesses) <= maxResults

\* The cap was reached while the enumeration still had unvisited cards.
C1_Witness ==
    /\ pc = "done"
    /\ maxResults > 0
    /\ Len(businesses) = maxResults
    /\ i < Len(businessLinks)

\* C2: every record of the result has a businessName that is neither null
\* nor empty.
C2_NoNullNameInResult ==
    \A k \in 1..Len(businesses) : Truthy(businesses[k].businessName)

\* C3: whenever validateBusinessData hands a record on (the pass went on to
\* the filter), the normalized name of that record is not empty; a raw
\* record whose normalized name is empty is rejected instead.
C3_ValidatorRejectsBlankName ==
    (InLoopAfterCard /\ lastOutcome \in {"filtered", "accepted"})
        => Truthy(Validated[LastCard].businessName)

\* C4: every href is clicked at most once during a walk, and the hrefs
\* clicked are exactly the hrefs of the seen set.
C4_EachHrefOpenedOnce ==
    /\ \A j, k \in 1..Len(clicks) : j # k => clicks[j] # clicks[k]
    /\ seenUrls = { clicks[k] : k \in 1..Len(clicks) }

\* A card whose first visit gave no record is rendered again in a later
\* enumeration and skipped.
C4_Witness ==
    /\ InLoopAfterCard
    /\ lastOutcome = "skip"
    /\ previousCount > 0
    /\ CardTable[LastCard].href \in seenUrls
    /\ \A k \in 1..Len(origin) : origin[k] # LastCard

\* C5: no two records of the result have the same googleMapsUrl.
C5_NoDuplicateMapsUrl ==
    \A j, k \in 1..Len(businesses) :
        j # k => businesses[j].googleMapsUrl # businesses[k].googleMapsUrl

\* The cards of the feed that the walk accepts when it visits them in order:
\* the first occurrence of every card whose record passes validation and
\* the filter.
Acceptable(c) ==
    CardOutcome(c, {}, FALSE, filters, blacklistReadable) = "accepted"

RECURSIVE AcceptedFrom(_, _)
AcceptedFrom(links, earlier) ==
    IF links = <<>> THEN <<>>
    ELSE (IF Acceptable(Head(links)) /\ Head(links) \notin earlier
          THEN <<Head(links)>> ELSE <<>>)
         \o AcceptedFrom(Tail(links), earlier \cup {Head(links)})

AcceptedCards(links) == AcceptedFrom(links, {})

Take(seq, n) == SubSeq(seq, 1, IF n < Len(seq) THEN n ELSE Len(seq))

AppendOnlyFeed == rerenders = 0

\* The position of card c in seq (0 when it is not there).
PositionIn(seq, c) ==
    IF \E k \in 1..Len(seq) : seq[k] = c
    THEN CHOOSE k \in 1..Len(seq) : seq[k] = c /\ \A j \in 1..(k - 1) : seq[j] # c
    ELSE 0

\* The records are the validated records of the cards they were made from.
RecordsOfOrigin ==
    /\ Len(businesses) = Len(origin)
    /\ \A k \in 1..Len(origin) : businesses[k] = Validated[origin[k]]

EndsIteration == pc = "for" /\ pc' \in {"scroll", "done"}

\* C7: an iteration whose card count is equal to or smaller than the
\* previous count increments the stall counter, an iteration whose count
\* grew resets it, and the walk ends when the counter reaches 3.
C7_StallCounter ==
    [][ EndsIteration =>
          /\ Len(businessLinks) <= previousCount
                => noNewResultsCount' = noNewResultsCount + 1
          /\ Len(businessLinks) > previousCount => noNewResultsCount' = 0
          /\ noNewResultsCount' >= StallLimit => pc' = "done" ]_vars

\* C8: if the rendered count never decreases, the walk eventually returns
\* or throws.  (shrunk stays true once it is true, so this is
\* ([] ~shrunk) => <> (the walk has ended).)
C8_WalkTerminates == <>(shrunk \/ pc \in {"done", "error"})

\* The walk returned after three stalls of a feed that never shrank.
C8_Witness ==
    /\ pc = "done"
    /\ ~shrunk
    /\ noNewResultsCount = StallLimit
    /\ Len(businessLinks) > 0

\* C9: a pass of the loop body in which an error is raised leaves the
\* result, the counters and the enumeration as they were, adds at most the
\* card's own href to the seen set, and leaves the walk in the for loop at
\* the next card.
C9_CaughtErrorSkipsCard ==
    [][ (pc = "for" /\ i' = i + 1 /\ lastOutcome' \in Thrown) =>
          /\ pc' = "for"
          /\ businesses' = businesses
          /\ seenUrls \subseteq seenUrls'
          /\ seenUrls' \subseteq seenUrls \cup {CardTable[businessLinks[i + 1]].href}
          /\ businessLinks' = businessLinks
          /\ previousCount' = previousCount
          /\ noNewResultsCount' = noNewResultsCount ]_vars

\* An error was caught while the result had records and the enumeration
\* had more cards.
C9_Witness ==
    /\ InLoopAfterCard
    /\ lastOutcome \in Thrown
    /\ businesses # <<>>
    /\ i < Len(businessLinks)

\* C10: with minReviews > 0 every record of the result has at least
\* minReviews reviews.
C10_ResultMeetsMinReviews ==
    filters.minReviews > 0 =>
        \A k \in 1..Len(businesses) :
            businesses[k].reviewCount >= filters.minReviews

\* ------------------------------------------------------------------------
\* Properties of the validator and the filter on one record
\* ------------------------------------------------------------------------
Filtered == recPc = "filtered"

\* C11: when minRating > 0, every record meetsFilterCriteria accepts has a
\* rating that is not null and is >= minRating.  (The code skips the test
\* for a rating of null or 0.)
C11_AcceptedMeetsMinRating ==
    (Filtered /\ verdict /\ filterArg.minRating > 0)
        => /\ recValidated.rating # NullNum
           /\ recValidated.rating >= filterArg.minRating

OnlyTierFilter ==
    filterArg = [ NoFilters EXCEPT
                    !.filterByPriceLevel = filterArg.filterByPriceLevel ]

OnlyPriceFilter ==
    filterArg = [ NoFilters EXCEPT !.minPrice = filterArg.minPrice,
                                   !.maxPrice = filterArg.maxPrice ]

\* C12: a record without a price level passes the price-tier filter
\* whatever the allowed set, and a record without a price range passes the
\* minPrice/maxPrice filter whatever the bounds.
C12_MissingPriceFieldPasses ==
    Filtered =>
        /\ (recValidated.priceLevel = Null /\ OnlyTierFilter) => verdict
        /\ (recValidated.priceRange = Null /\ OnlyPriceFilter) => verdict

\* A record with neither price field passes a price-tier filter.
C12_Witness ==
    /\ Filtered
    /\ recValidated.priceLevel = Null
    /\ recValidated.priceRange = Null
    /\ OnlyTierFilter
    /\ filterArg.filterByPriceLevel # {}
    /\ verdict

HasPlus(range) == \E k \in 1..Len(range) : range[k] = "+"

OnlyMaxPriceFilter ==
    /\ filterArg = [ NoFilters EXCEPT !.maxPrice = filterArg.maxPrice ]
    /\ filterArg.maxPrice > 0

\* C13: with only maxPrice > 0 set, a record whose price range has a "+" or
\* two numbers is excluded exactly when the first number of the range is
\* strictly greater than maxPrice.
C13_MaxPriceExcludesAboveLowerBound ==
    ( /\ Filtered
      /\ OnlyMaxPriceFilter
      /\ recValidated.priceRange # Null
      /\ \/ HasPlus(recValidated.priceRange)
         \/ Len(DigitGroups(recValidated.priceRange)) = 2 )
    => ( ~verdict <=>
           DigitsValue(DigitGroups(recValidated.priceRange)[1])
             > filterArg.maxPrice )

\* "$30-40" with maxPrice 20 is excluded.
C13_Witness ==
    /\ Filtered
    /\ OnlyMaxPriceFilter
    /\ filterArg.maxPrice = 20
    /\ recValidated.priceRange = <<"$", "3", "0", "-", "4", "0">>
    /\ ~verdict

\* C20: validating a validated record returns an equal record, without an
\* exception.  (The code throws a TypeError for a numeric rating or review
\* count, and turns a rating of 0 into null.)
C20_ValidationIdempotent ==
    recPc = "revalidated"
        => /\ ~revalidated.threw
           /\ revalidated.value = recValidated

\* ------------------------------------------------------------------------
\* Properties of the email enrichment
\* ------------------------------------------------------------------------
Tasks == DOMAIN taskPc

OpenContexts == { k \in Tasks : context[k] }

\* C14: at every moment the number of running enrichment tasks, and the
\* number of open browser contexts, is at most the concurrency limit.
C14_RunningWithinConcurrency ==
    /\ Cardinality(ActiveTasks) <= concurrency
    /\ Cardinality(OpenContexts) <= concurrency

\* As many contexts open as the limit allows while a task is still queued.
C14_Witness ==
    /\ concurrency = MaxConcurrency
    /\ Cardinality(OpenContexts) = concurrency
    /\ \E k \in Tasks : taskPc[k] = "queued"

\* C15: the context and the page a task opened are closed before the task
\* completes, on every exit path; when batchFindEmails returns no context
\* is open.
C15_ContextClosedBeforeTaskCompletes ==
    /\ \A k \in Tasks :
          taskPc[k] \in {"write", "done"} => ~context[k] /\ ~page[k]
    /\ batchPc = "returned" => OpenContexts = {}

\* batchFindEmails returned after tasks that ended in each way that opens a
\* context: emails found, the homepage failed, the page was not created.
C15_Witness ==
    /\ batchPc = "returned"
    /\ \E k \in Tasks : exitPath[k] = "found"
    /\ \E k \in Tasks : exitPath[k] = "home_failed"
    /\ \E k \in Tasks : exitPath[k] = "page_failed"

\* The emails of the pages of a website that loaded, in the order of the
\* visits.
ExpectedEmails(website, pages) ==
    LET site  == SiteOf(website)
        links == ContactLinks(website)
        home  == IF 0 \in pages THEN extractEmailsFromHTML(site.home) ELSE <<>>
        one   == IF 1 \in pages
                 THEN AddAll(home, extractEmailsFromHTML(links[1])) ELSE home
    IN  IF 2 \in pages THEN AddAll(one, extractEmailsFromHTML(links[2]))
        ELSE one

\* C16: a contact page that fails contributes nothing and nothing else
\* changes: a task whose homepage loaded completes with the emails of the
\* homepage and of the contact pages that loaded, whatever failed.
C16_FailedPageContributesNothing ==
    \A k \in Tasks :
        (taskPc[k] = "done" /\ 0 \in loaded[k]) =>
            LET expected == ExpectedEmails(input[k].website, loaded[k]) IN
            /\ batch[k].emails = expected
            /\ batch[k].emailSource =
                  IF expected = <<>> THEN "not_found" ELSE "website"

\* The first contact page of a website failed, and the record has the
\* emails of the homepage and of the second contact page.
C16_Witness ==
    \E k \in Tasks :
        /\ taskPc[k] = "done"
        /\ loaded[k] = {0, 2}
        /\ Len(batch[k].emails) = 2
        /\ batchPc = "returned"

HasWebsite(k) == Truthy(input[k].website)

C18_ProfileEmailKept ==
    batchPc = "returned" =>
        \A k \in Tasks :
            (input[k].emailSource = "google_profile" /\ input[k].emails # <<>>)
                => /\ batch[k].emailSource = "google_profile"
                   /\ batch[k].emails = input[k].emails

\* C19: enrichment never reorders or replaces records: at every moment the
\* array has each record of the input at its position, changed in emails
\* and emailSource at most, and written by no task other than its own.
C19_RecordsStayInPlace ==
    /\ Len(batch) = Len(input)
    /\ \A k \in Tasks :
          /\ batch[k] = [ input[k] EXCEPT !.emails = batch[k].emails,
                                          !.emailSource = batch[k].emailSource ]
          /\ writers[k] \subseteq {k}

\* Every record has a website and was written by its own task: the first
\* found no email, the second found some.
C19_Witness ==
    /\ batchPc = "returned"
    /\ Len(batch) >= 2
    /\ \A k \in Tasks : HasWebsite(k) /\ writers[k] = {k}
    /\ batch[2].emailSource = "website"
    /\ batch[1].emailSource = "not_found"

\* ------------------------------------------------------------------------
\* Properties of the coordinates
\* ------------------------------------------------------------------------
HasValidated == recPc \in {"validated", "filtered", "revalidated"}

\* C21: in every record validateBusinessData returns, latitude and longitude
\* are both null or both set; when set, latitude is within [-90, 90] and
\* longitude within [-180, 180]; and when the URL has an @lat,lng match in
\* range, the record has that pair, whatever its !3d!4d part says.
C21_CoordinatesBothOrNeither ==
    HasValidated =>
        LET lat == recValidated.latitude
            lng == recValidated.longitude
            at  == AtMatch(recRaw.googleMapsUrl)
        IN  /\ lat.isNull <=> lng.isNull
            /\ ~lat.isNull =>
                  /\ lat.whole < 90 \/ (lat.whole = 90 /\ lat.frac = <<>>)
                  /\ lng.whole < 180 \/ (lng.whole = 180 /\ lng.frac = <<>>)
            /\ ValidCoordinates(at) =>
                  lat = at.latitude /\ lng = at.longitude

\* A URL with @40.7,-73.9 and a different pair in range after !3d: the
\* record has 40.7, -73.9.
C21_Witness ==
    /\ HasValidated
    /\ recValidated.latitude = parseFloat(FALSE, <<"4", "0">>, <<"7">>)
    /\ recValidated.longitude = parseFloat(TRUE, <<"7", "3">>, <<"9">>)
    /\ ValidCoordinates(BangMatch(recRaw.googleMapsUrl))
    /\ BangMatch(recRaw.googleMapsUrl).latitude # recValidated.latitude

\* ------------------------------------------------------------------------
\* Properties of the emails of a record
\* ------------------------------------------------------------------------
\* The address matches the syntax pattern, has no blacklisted domain in it
\* and matches no blacklisted pattern.
CleanAddress(email) ==
    /\ emailRegexTest(email)
    /\ \A k \in 1..Len(email) : email[k] \notin BlacklistDomains
    /\ ~BlacklistPatternNoreply(email)

\* C22: every address in the emails of a record, as validation left it and
\* at every moment of the enrichment, matches the syntax pattern, contains
\* no blacklisted domain and matches no blacklisted pattern.
C22_EmailsCleanAtEveryStage ==
    \A k \in Tasks :
        \A n \in 1..Len(batch[k].emails) : CleanAddress(batch[k].emails[n])

\* A website whose pages have a noreply address, an address in capitals
\* and a duplicate was crawled on all three pages.
C22_Witness ==
    \E k \in Tasks :
        /\ taskPc[k] = "done"
        /\ loaded[k] = {0, 1, 2}
        /\ batch[k].emails = << <<"info", "@", "shop.example">>,
                                <<"joe", "@", "shop.example">>,
                                <<"joe", "@", "cafe.example">> >>

\* ------------------------------------------------------------------------
\* Properties of a run
\* ------------------------------------------------------------------------
\* C23: when keyword or location is missing, or when none of the
\* results-panel selectors appeared, the run is on its way out with that
\* error: no card has been walked, no enrichment has started, nothing was
\* given to the dataset, scrapeGoogleMaps was called at most once, no
\* selector was waited for twice, and main ends with the error.
C23_FatalSetupErrorAborts ==
    failure \in {"input", "panel"} =>
        /\ runPc \in {"catch", "finally", "closeBrowser", "mainCatch", "exit"}
        /\ pc = "idle" /\ clicks = <<>>
        /\ batchPc = "idle"
        /\ dataset = <<>>
        /\ calls = (IF failure = "input" THEN 0 ELSE 1)
        /\ waited = [ k \in 1..Len(waited) |-> k ]
        /\ Len(waited) <= PanelSelectors
        /\ runPc = "exit" => exitError = failure

\* None of the four selectors appeared; the run has ended.
C23_Witness ==
    /\ runPc = "exit"
    /\ failure = "panel"
    /\ waited = <<1, 2, 3, 4>>
    /\ browser = "closed"

\* ------------------------------------------------------------------------
\* Properties of the business hours
\* ------------------------------------------------------------------------
\* The labels that match the pattern for weekday d, by position.
LabelsOf(d) ==
    { k \in 1..Len(ariaLabels) :
        /\ HoursLabelMatch(ariaLabels[k]).ok
        /\ WeekdayOf(HoursLabelMatch(ariaLabels[k]).day) = d }

\* The entries of the extracted hours for weekday d, by position.
EntriesOf(d) ==
    { n \in 1..Len(hoursData.entries) :
        WeekdayOf(hoursData.entries[n].day) = d }

FirstOf(S) == CHOOSE k \in S : \A j \in S : k <= j

\* C24: the extracted hours have, for each weekday that a label names,
\* one entry, with the time range of the first label of that weekday, and
\* no entry for a weekday no label names.
C24_FirstOccurrenceOfEachWeekday ==
    (hoursPc \in {"extracted", "validated"} /\ ~hoursData.isNull) =>
        \A d \in ValidDays :
            IF LabelsOf(d) = {} THEN EntriesOf(d) = {}
            ELSE /\ Cardinality(EntriesOf(d)) = 1
                 /\ \A n \in EntriesOf(d) :
                       hoursData.entries[n].time =
                           HoursLabelMatch(ariaLabels[FirstOf(LabelsOf(d))]).timeRange

\* ------------------------------------------------------------------------
\* Progress and navigations of the enrichment
\* ------------------------------------------------------------------------
\* C25: batchFindEmails eventually returns, and then every task has run
\* to completion, whatever the number of records and however many of the
\* websites never respond.
C25_EnrichmentReturns ==
    <>(batchPc = "returned" /\ \A k \in Tasks : taskPc[k] = "done")

\* More records than the limit allows at once, each with a website whose
\* homepage never responded; batchFindEmails has returned.
C25_Witness ==
    /\ batchPc = "returned"
    /\ Len(batch) > concurrency
    /\ \A k \in Tasks : HasWebsite(k) /\ exitPath[k] = "home_failed"

\* C26: a task navigates to the homepage once and then to the first two
\* contact links at most, each once and in their order: at most three
\* pages, and never a third link, whichever of them failed.
C26_AtMostThreeNavigations ==
    \A k \in Tasks : visits[k] \in { <<>>, <<0>>, <<0, 1>>, <<0, 1, 2>> }

\* A website with three contact links: the homepage loaded, both of the
\* first two contact links failed, and the task has ended.
C26_Witness ==
    \E k \in Tasks :
        /\ taskPc[k] = "done"
        /\ Len(SiteOf(batch[k].website).links) = 3
        /\ visits[k] = <<0, 1, 2>>
        /\ loaded[k] = {0}

\* ------------------------------------------------------------------------
\* Frame of a rejected card
\* ------------------------------------------------------------------------
\* The outcomes of a pass of the loop body in which validation or the
\* filter rejected the card.
Rejected == {"throw_validate", "invalid", "filtered"}

\* C27: a pass of the loop body that ends with the card rejected by
\* validation or by the filter leaves the result, the stall counter and
\* previousCount as they were; and the stall check after the loop sets the
\* counter from the number of cards of this enumeration and of the last
\* one alone: one more when they are equal, zero when they differ.
C27_RejectedCardFrame ==
    [][ /\ (pc = "for" /\ i' = i + 1 /\ lastOutcome' \in Rejected) =>
            /\ businesses' = businesses
            /\ noNewResultsCount' = noNewResultsCount
            /\ previousCount' = previousCount
        /\ (pc = "for" /\ pc' \in {"done", "scroll"}) =>
            noNewResultsCount' = IF Len(businessLinks) = previousCount
                                 THEN noNewResultsCount + 1 ELSE 0
      ]_vars

\* A card was filtered out after another was accepted, and the walk went
\* on to its stall check.
C27_Witness ==
    /\ pc = "scroll"
    /\ lastOutcome = "filtered"
    /\ Len(businesses) = 1
    /\ noNewResultsCount = 0
    /\ previousCount = 2

\* ------------------------------------------------------------------------
\* Email source of a validated record
\* ------------------------------------------------------------------------
\* C28: in a record validateBusinessData returned, emailSource is
\* 'not_found' exactly when emails is empty.
C28_NotFoundIffNoEmails ==
    HasValidated =>
        (recValidated.emailSource = "not_found" <=> recValidated.emails = <<>>)

\* ------------------------------------------------------------------------
\* Cards of the last enumeration
\* ------------------------------------------------------------------------
\* The walk ended by the stall limit with the cap not reached.
EndedByStall ==
    /\ pc = "done"
    /\ StallReached(noNewResultsCount)
    /\ Len(businesses) < maxResults

\* C29: when the walk has ended by the stall limit, every card of the last
\* enumeration has been through extractBusinessData: its href is in
\* seenUrls (it was clicked, or skipped as already seen), or its href
\* could not be read when it was visited.
C29_NoRenderedCardMissed ==
    EndedByStall =>
        \A k \in 1..Len(businessLinks) :
            \/ CardTable[businessLinks[k]].href \in seenUrls
            \/ CardTable[businessLinks[k]].fragile = "href"

\* ------------------------------------------------------------------------
\* Stages of a run
\* ------------------------------------------------------------------------
\* Every enrichment task has completed and released its page and context.
TasksReleased ==
    \A k \in Tasks : taskPc[k] = "done" /\ ~context[k] /\ ~page[k]

\* C30: batchFindEmails is not called, and so no context is opened, before
\* the listing walk has returned; a step of the walk opens one detail view
\* and no task is running then; the listing page and the browser are
\* closed only when every task has completed and released its context, and
\* on every way out of scrapeGoogleMaps neither is left open.
C30_StagesDoNotOverlap ==
    /\ [](batchPc # "idle" =>
             /\ pc = "idle"
             /\ runPc \notin {"main", "launch", "newPage", "goto", "wait", "walk"})
    /\ [](OpenContexts # {} => browser = "open" /\ listingPage = "open")
    /\ []((browser = "closed" \/ listingPage = "closed") => TasksReleased)
    /\ [](runPc \in {"push", "mainCatch", "exit"} =>
             browser # "open" /\ listingPage # "open")
    /\ [][ clicks' # clicks =>
             /\ Len(clicks') <= Len(clicks) + 1
             /\ batchPc = "idle" /\ batchPc' = "idle" ]_vars

\* A run with enrichment has ended: two businesses, an email found on a
\* website, the browser closed.
C30_Witness ==
    /\ runPc = "exit"
    /\ failure = "none"
    /\ browser = "closed" /\ listingPage = "closed"
    /\ batchPc = "returned"
    /\ Len(batch) = 2
    /\ \E k \in Tasks : exitPath[k] = "found"

====
